----------------------------- MODULE People_proofs -----------------------------
(***************************************************************************)
(* Theorems about Accounts, for any people, staff, addresses, usernames,   *)
(* requests and bounds that satisfy its assumption; then about the         *)
(* supporters and the notice board of an arcade (Supporters,               *)
(* ArcadeNotices), for any people, ledger, notices, requests and limits    *)
(* that satisfy theirs; and about visits, check-ins and passports          *)
(* (Attendance).                                                           *)
(***************************************************************************)
EXTENDS Accounts, ArcadeNotices, Attendance, LedgerTheorems, SequenceTheorems


USE AccountsAssumption DEF AccountsAssumption

Addresses == Emails \cup Ids \cup {NoEmail}

Entered == [kind : Kinds, by : Ids, auth : Account]
Banning == [kind : {"banning"}, by : Ids, user : Ids, hash : Addresses, until : 0..Forever]

(* The shapes, without what relates accounts to one another.               *)
Shapes ==
    /\ account \in [Ids -> Account]
    /\ profile \in [Ids -> {"none", "own", "anonymous"}]
    /\ ban \in [Ids -> Ban]
    /\ session \subseteq Ids /\ moderated \subseteq Ids /\ now \in 1..EndTime
    /\ call \in [Calls -> {Ended} \cup Entered \cup Banning]
    /\ left \in [Ids -> [email : Addresses, until : 0..Forever]]

(* Requests and sessions belong to accounts that exist; a withdrawn one    *)
(* has no session.                                                         *)
Present ==
    /\ \A a \in Ids : ~account[a].exists => account[a] = NoAccount
    /\ \A a \in session : account[a].exists /\ ~account[a].withdrawn
    /\ \A c \in Calls : call[c] # Ended => account[call[c].by].exists

(* No two accounts share an address or a username, and what stands for the *)
(* tombstone of an account is on no other.                                 *)
Unique ==
    /\ \A a \in Ids : account[a].email \in Ids => account[a].email = a
    /\ \A a \in Ids : account[a].name \in Ids => account[a].name = a
    /\ \A a, b \in Ids : a # b /\ account[a].exists /\ account[b].exists =>
         /\ account[a].email = account[b].email => account[a].email = NoEmail
         /\ account[a].name = account[b].name => account[a].name = NoName

Profiled == \A a \in Ids : account[a].name = NoName <=> profile[a] = "none"

(* The block of a withdrawal is on the record of its own account.          *)
Blocked ==
    \A a \in Ids :
        /\ ~account[a].withdrawn => left[a].until = 0
        /\ account[a].withdrawn /\ a \notin moderated /\ left[a].email # NoEmail =>
             ban[a].hash = left[a].email /\ ban[a].until >= left[a].until

Sound == Shapes /\ Present /\ Unique /\ Profiled /\ Blocked

-------------------------------------------------------------------------------
(* What a request under way says of its sender.                            *)
LEMMA Sender ==
    ASSUME Shapes, Present, NEW c \in Calls, call[c] # Ended
    PROVE  /\ call[c] \in Entered \cup Banning
           /\ call[c].by \in Ids
           /\ account[call[c].by].exists
  BY DEF Shapes, Present, Entered, Banning

(* A call that ends leaves the others.                                     *)
LEMMA Finished ==
    ASSUME Shapes, NEW c \in Calls, Finish(c)
    PROVE  /\ call' \in [Calls -> {Ended} \cup Entered \cup Banning]
           /\ \A d \in Calls : call'[d] # Ended => call'[d] = call[d]
  BY DEF Shapes, Finish

(* The record an upsert writes.                                            *)
LEMMA UpsertedBan ==
    ASSUME Shapes, NEW a \in Ids, NEW h \in Addresses, NEW t \in 0..Forever
    PROVE  /\ Upserted(a, h, t) \in Ban
           /\ Upserted(a, h, t).until = t
           /\ h # NoEmail => Upserted(a, h, t).hash = h
  BY DEF Shapes, Upserted, Ban, Addresses

(* The end of a withdrawal's block is in the range of bans.                *)
LEMMA BlockEndsInTime ==
    ASSUME Shapes, NEW a \in Ids PROVE BlockEnd(a) \in 0..Forever
  BY DEF Shapes, BlockEnd

-------------------------------------------------------------------------------
\* What staff has from the start.
FirstAccount(a) == [NoAccount EXCEPT !.exists = TRUE, !.name = a]

LEMMA FirstIs ==
    ASSUME NEW a \in Ids
    PROVE  /\ FirstAccount(a) \in Account /\ FirstAccount(a) # NoAccount
           /\ FirstAccount(a).exists /\ ~FirstAccount(a).withdrawn
           /\ FirstAccount(a).name = a /\ FirstAccount(a).email = NoEmail
  <1> DEFINE x == [NoAccount EXCEPT !.exists = TRUE]
             y == [x EXCEPT !.name = a]
  <1>1. x \in Account /\ x.exists /\ ~x.withdrawn /\ x.email = NoEmail
    BY DEF NoAccount, Account
  <1>2. FirstAccount(a) = y
    BY Zenon DEF FirstAccount
  <1> HIDE DEF x
  <1>3. y \in Account /\ y.exists /\ ~y.withdrawn /\ y.email = NoEmail /\ y.name = a
    BY <1>1 DEF Account
  <1> HIDE DEF y
  <1>4. y # NoAccount
    BY <1>3 DEF NoAccount
  <1> QED
    BY <1>2, <1>3, <1>4

LEMMA InitSound == AccountsInit => Sound
  <1> SUFFICES ASSUME AccountsInit PROVE Sound
    OBVIOUS
  <1>7. /\ account = [a \in Ids |-> IF a \in Staff THEN FirstAccount(a) ELSE NoAccount]
        /\ profile = [a \in Ids |-> IF a \in Staff THEN "own" ELSE "none"]
        /\ ban = [a \in Ids |-> NoBan]
        /\ left = [a \in Ids |-> [email |-> NoEmail, until |-> 0]]
        /\ call = [c \in Calls |-> Ended]
        /\ session = Staff /\ moderated = {} /\ now = 1
    BY Zenon DEF AccountsInit, FirstAccount
  <1> HIDE DEF AccountsInit
  <1>8. \A a \in Ids : account[a] = IF a \in Staff THEN FirstAccount(a) ELSE NoAccount
    BY <1>7
  <1>1. Shapes
    <2>1. account \in [Ids -> Account]
      <3>1. NoAccount \in Account /\ \A a \in Ids : FirstAccount(a) \in Account
        BY FirstIs DEF NoAccount, Account
      <3> QED
        BY <1>7, <3>1
    <2>2. ban \in [Ids -> Ban] /\ left \in [Ids -> [email : Addresses, until : 0..Forever]]
      BY <1>7 DEF Ban, NoBan, Addresses
    <2>3. profile \in [Ids -> {"none", "own", "anonymous"}]
      BY <1>7
    <2>4. call \in [Calls -> {Ended} \cup Entered \cup Banning]
      BY <1>7
    <2>5. session \subseteq Ids /\ moderated \subseteq Ids /\ now \in 1..EndTime
      BY <1>7
    <2> QED
      BY <2>1, <2>2, <2>3, <2>4, <2>5 DEF Shapes
  <1>2. Present
    BY <1>7, <1>8, FirstIs DEF Present, NoAccount
  <1>3. Unique
    BY <1>7, <1>8, FirstIs DEF Unique, NoAccount
  <1>4. Profiled
    BY <1>7, <1>8, FirstIs DEF Profiled, NoAccount
  <1>5. Blocked
    BY <1>7, <1>8, FirstIs DEF Blocked, NoAccount
  <1> QED
    BY <1>1, <1>2, <1>3, <1>4, <1>5 DEF Sound

(* Registration and staff make an account that was not there.              *)
LEMMA MadeSound ==
    ASSUME Sound, NEW a \in Ids, NEW r \in Account, NEW p \in {"none", "own"},
           ~account[a].exists,
           r.exists, ~r.withdrawn, r.email \in Emails, r.name \in Names \cup {NoName},
           ~EmailTaken(r.email), ~NameTaken(r.name) \/ r.name = NoName,
           r.name = NoName <=> p = "none",
           account' = [account EXCEPT ![a] = r],
           profile' = [profile EXCEPT ![a] = p],
           session' \subseteq session \cup {a},
           call' \in [Calls -> {Ended} \cup Entered \cup Banning],
           \A d \in Calls : call'[d] # Ended => call'[d] = call[d],
           UNCHANGED <<ban, left, moderated, now>>
    PROVE  Sound'
  <1>1. Shapes'
    BY DEF Sound, Shapes
  <1>2. Present'
    BY DEF Sound, Present, Shapes, Entered, Banning
  <1>3. Unique'
    <2>1. \A b \in Ids : account'[b].email \in Ids => account'[b].email = b
      BY DEF Sound, Unique, Shapes
    <2>2. \A b \in Ids : account'[b].name \in Ids => account'[b].name = b
      BY DEF Sound, Unique, Shapes
    <2>3. ASSUME NEW b \in Ids, NEW d \in Ids, b # d, account'[b].exists, account'[d].exists
          PROVE  /\ account'[b].email = account'[d].email => account'[b].email = NoEmail
                 /\ account'[b].name = account'[d].name => account'[b].name = NoName
      BY <2>3 DEF Sound, Unique, Shapes, EmailTaken, NameTaken
    <2> QED
      BY <2>1, <2>2, <2>3 DEF Unique
  <1>4. Profiled'
    BY DEF Sound, Profiled, Shapes
  <1>5. Blocked'
    BY DEF Sound, Blocked, Shapes, Present, NoAccount
  <1> QED
    BY <1>1, <1>2, <1>3, <1>4, <1>5 DEF Sound

LEMMA RegisterSound ==
    ASSUME Sound, NEW a \in Ids, NEW e \in Emails, Register(a, e)
    PROVE  Sound'
  <1> DEFINE r == [NoAccount EXCEPT !.exists = TRUE, !.email = e]
  <1>1. r \in Account /\ r.exists /\ ~r.withdrawn /\ r.email = e /\ r.name = NoName
    BY DEF NoAccount, Account
  <1>2. profile[a] = "none" /\ profile' = [profile EXCEPT ![a] = "none"]
    BY DEF Register, Sound, Present, Profiled, NoAccount, Shapes
  <1>3. /\ ~account[a].exists /\ ~EmailTaken(e)
        /\ account' = [account EXCEPT ![a] = r] /\ session' = session \cup {a}
        /\ UNCHANGED <<ban, call, left, moderated, now>>
    BY DEF Register
  <1>4. call \in [Calls -> {Ended} \cup Entered \cup Banning]
    BY DEF Sound, Shapes
  <1> HIDE DEF r
  <1> QED
    BY <1>1, <1>2, <1>3, <1>4, MadeSound

LEMMA CreateSound ==
    ASSUME Sound, NEW c \in Calls, NEW a \in Ids, NEW e \in Emails, NEW n \in Names,
           NEW o \in BOOLEAN, CreateManagedAccount(c, a, e, n, o)
    PROVE  Sound'
  <1> DEFINE r == [exists |-> TRUE, email |-> e, name |-> n, official |-> o, withdrawn |-> FALSE]
  <1>1. r \in Account /\ r.exists /\ ~r.withdrawn /\ r.email = e /\ r.name = n
    BY DEF Account
  <1>2. /\ ~account[a].exists /\ ~EmailTaken(e) /\ ~NameTaken(n)
        /\ account' = [account EXCEPT ![a] = r] /\ profile' = [profile EXCEPT ![a] = "own"]
        /\ Finish(c) /\ UNCHANGED <<ban, session, left, moderated, now>>
    BY DEF CreateManagedAccount
  <1>3. /\ call' \in [Calls -> {Ended} \cup Entered \cup Banning]
        /\ \A d \in Calls : call'[d] # Ended => call'[d] = call[d]
    BY <1>2, Finished DEF Sound
  <1> HIDE DEF r
  <1> QED
    BY <1>1, <1>2, <1>3, MadeSound

(* A withdrawal.                                                           *)
LEMMA WithdrawSound ==
    ASSUME Sound, NEW c \in Calls, Withdraw(c)
    PROVE  Sound'
  <1> DEFINE a == call[c].by
             end == BlockEnd(a)
             r == [account[a] EXCEPT !.email = a, !.name = a, !.official = FALSE, !.withdrawn = TRUE]
  <1>0. a \in Ids /\ account[a].exists /\ account[a] \in Account
    BY Sender DEF Sound, Withdraw, Running, Ended, Shapes
  <1>1. /\ ~account[a].withdrawn /\ TombstoneFree(a)
        /\ ban' = [ban EXCEPT ![a] = Upserted(a, account[a].email, end)]
        /\ account' = [account EXCEPT ![a] = r]
        /\ profile' = [profile EXCEPT ![a] = "anonymous"]
        /\ session' = session \ {a}
        /\ left' = [left EXCEPT ![a] = [email |-> account[a].email, until |-> end]]
        /\ Finish(c) /\ UNCHANGED <<moderated, now>>
    BY DEF Withdraw, Anonymized
  <1>2. /\ r \in Account /\ r.exists /\ r.email = a /\ r.name = a /\ r.withdrawn
    BY <1>0 DEF Account
  <1>3. end \in 0..Forever /\ account[a].email \in Addresses
    BY <1>0, BlockEndsInTime DEF Sound, Account, Addresses
  <1>4. /\ Upserted(a, account[a].email, end) \in Ban
        /\ Upserted(a, account[a].email, end).until = end
        /\ account[a].email # NoEmail => Upserted(a, account[a].email, end).hash = account[a].email
    BY <1>0, <1>3, UpsertedBan DEF Sound
  <1>5. /\ call' \in [Calls -> {Ended} \cup Entered \cup Banning]
        /\ \A d \in Calls : call'[d] # Ended => call'[d] = call[d]
    BY <1>1, Finished DEF Sound
  <1> HIDE DEF a, end, r
  <1>6. Shapes'
    BY <1>0, <1>1, <1>2, <1>3, <1>4, <1>5 DEF Sound, Shapes
  <1>7. Present'
    BY <1>0, <1>1, <1>2, <1>5 DEF Sound, Present, Shapes, Entered, Banning
  <1>8. Unique'
    <2>1. account' \in [Ids -> Account] /\ account'[a] = r /\ \A b \in Ids \ {a} : account'[b] = account[b]
      BY <1>0, <1>1, <1>2 DEF Sound, Shapes
    <2>2. /\ \A b \in Ids : account'[b].email \in Ids => account'[b].email = b
          /\ \A b \in Ids : account'[b].name \in Ids => account'[b].name = b
      BY <1>2, <2>1 DEF Sound, Unique
    <2>3. \A b \in Ids \ {a} : account[b].email # a /\ account[b].name # a
      BY <1>0 DEF Sound, Unique
    <2>4. ASSUME NEW b \in Ids, NEW d \in Ids, b # d, account'[b].exists, account'[d].exists
          PROVE  /\ account'[b].email = account'[d].email => account'[b].email = NoEmail
                 /\ account'[b].name = account'[d].name => account'[b].name = NoName
      BY <1>0, <1>2, <2>1, <2>3, <2>4 DEF Sound, Unique
    <2> QED
      BY <2>2, <2>4 DEF Unique
  <1>9. Profiled'
    BY <1>0, <1>1, <1>2 DEF Sound, Profiled, Shapes
  <1>10. Blocked'
    BY <1>0, <1>1, <1>2, <1>3, <1>4 DEF Sound, Blocked, Shapes
  <1> QED
    BY <1>6, <1>7, <1>8, <1>9, <1>10 DEF Sound

(* Who has a ban, and until when, is all that a request of staff changes.  *)
LEMMA BanSound ==
    ASSUME Sound, NEW a \in Ids, NEW b \in Ban,
           ban' = [ban EXCEPT ![a] = b],
           moderated' = IF account[a].withdrawn THEN moderated \cup {a} ELSE moderated,
           call' \in [Calls -> {Ended} \cup Entered \cup Banning],
           \A d \in Calls : call'[d] # Ended => call'[d] = call[d],
           UNCHANGED <<account, profile, session, left, now>>
    PROVE  Sound'
  <1>1. Shapes'
    BY DEF Sound, Shapes
  <1>2. Present' /\ Unique' /\ Profiled'
    BY DEF Sound, Present, Unique, Profiled
  <1>3. Blocked'
    BY DEF Sound, Blocked, Shapes
  <1> QED
    BY <1>1, <1>2, <1>3 DEF Sound

LEMMA StaffSound ==
    ASSUME Sound, NEW c \in Calls,
           CreateOrUpdateUserBan(c) \/ \E a \in Ids : DeleteUserBan(c, a)
    PROVE  Sound'
  <1>1. CASE CreateOrUpdateUserBan(c)
    <2>1. call[c] \in Banning
      BY <1>1, Sender DEF Sound, CreateOrUpdateUserBan, Running, Ended, Entered, Kinds
    <2>2. call[c].user \in Ids /\ call[c].hash \in Addresses /\ call[c].until \in 0..Forever
      BY <2>1 DEF Banning
    <2>3. Upserted(call[c].user, call[c].hash, call[c].until) \in Ban
      BY <2>2, UpsertedBan DEF Sound
    <2>4. /\ call' \in [Calls -> {Ended} \cup Entered \cup Banning]
          /\ \A d \in Calls : call'[d] # Ended => call'[d] = call[d]
      BY <1>1, Finished DEF Sound, CreateOrUpdateUserBan
    <2> QED
      BY <1>1, <2>2, <2>3, <2>4, BanSound DEF CreateOrUpdateUserBan
  <1>2. ASSUME NEW a \in Ids, DeleteUserBan(c, a) PROVE Sound'
    <2>1. NoBan \in Ban
      BY DEF NoBan, Ban
    <2>2. /\ call' \in [Calls -> {Ended} \cup Entered \cup Banning]
          /\ \A d \in Calls : call'[d] # Ended => call'[d] = call[d]
      BY <1>2, Finished DEF Sound, DeleteUserBan
    <2> QED
      BY <1>2, <2>1, <2>2, BanSound DEF DeleteUserBan
  <1> QED
    BY <1>1, <1>2

(* A request enters, is refused, or has read the address it will ban.      *)
LEMMA CallSound ==
    ASSUME Sound, NEW c \in Calls, NEW r,
           r \in {Ended} \cup Entered \cup Banning,
           r # Ended => account[r.by].exists,
           call' = [call EXCEPT ![c] = r],
           UNCHANGED <<account, profile, ban, session, left, moderated, now>>
    PROVE  Sound'
  <1>1. Shapes'
    BY DEF Sound, Shapes
  <1>2. Present'
    BY DEF Sound, Present, Shapes
  <1>3. Unique' /\ Profiled' /\ Blocked'
    BY DEF Sound, Unique, Profiled, Blocked
  <1> QED
    BY <1>1, <1>2, <1>3 DEF Sound

LEMMA RequestSound ==
    ASSUME Sound, NEW c \in Calls,
           \/ \E a \in Ids, k \in Kinds : Enter(c, a, k)
           \/ Refuse(c)
           \/ \E a \in Ids, t \in {now + 1, Forever} : ReadBanned(c, a, t)
    PROVE  Sound'
  <1>1. ASSUME NEW a \in Ids, NEW k \in Kinds, Enter(c, a, k) PROVE Sound'
    <2> DEFINE r == [kind |-> k, by |-> a, auth |-> account[a]]
    <2>1. r \in Entered /\ account[r.by].exists
      BY <1>1 DEF Enter, Sound, Shapes, Present, Entered
    <2> QED
      BY <1>1, <2>1, CallSound DEF Enter
  <1>2. CASE Refuse(c)
    BY <1>2, CallSound DEF Refuse, Finish
  <1>3. ASSUME NEW a \in Ids, NEW t \in {now + 1, Forever}, ReadBanned(c, a, t) PROVE Sound'
    <2> DEFINE r == [kind |-> "banning", by |-> call[c].by, user |-> a,
                     hash |-> account[a].email, until |-> t]
    <2>1. call[c].by \in Ids /\ account[call[c].by].exists
      BY <1>3, Sender DEF Sound, ReadBanned, Running, Ended
    <2>2. account[a].email \in Addresses /\ t \in 0..Forever
      BY DEF Sound, Shapes, Account, Addresses
    <2>3. r \in Banning /\ r.by = call[c].by
      BY <2>1, <2>2 DEF Banning
    <2>4. call' = [call EXCEPT ![c] = r] /\ UNCHANGED <<account, profile, ban, session, left, moderated, now>>
      BY <1>3 DEF ReadBanned
    <2> HIDE DEF r
    <2> QED
      BY <2>1, <2>3, <2>4, CallSound
  <1> QED
    BY <1>1, <1>2, <1>3

(* Requests of people about their own account.                             *)
LEMMA SignUpSound ==
    ASSUME Sound, NEW c \in Calls, SignUp(c)
    PROVE  Sound'
  <1> DEFINE a == call[c].by
  <1>0. a \in Ids /\ account[a].exists /\ account[a] \in Account
    BY Sender DEF Sound, SignUp, Running, Ended, Shapes
  <1>1. PICK n \in Names : /\ ~NameTaken(n)
                           /\ account' = [account EXCEPT ![a].name = n]
    BY DEF SignUp
  <1>2. /\ profile' = [profile EXCEPT ![a] = "own"]
        /\ ~account[a].withdrawn
        /\ Finish(c) /\ UNCHANGED <<ban, session, left, moderated, now>>
    BY DEF SignUp, MaySignUp
  <1>3. /\ call' \in [Calls -> {Ended} \cup Entered \cup Banning]
        /\ \A d \in Calls : call'[d] # Ended => call'[d] = call[d]
    BY <1>2, Finished DEF Sound
  <1> HIDE DEF a
  <1>4. /\ account \in [Ids -> Account] /\ account' \in [Ids -> Account]
        /\ \A b \in Ids \ {a} : account'[b] = account[b]
        /\ account'[a] = [account[a] EXCEPT !.name = n]
    BY <1>0, <1>1 DEF Sound, Shapes, Account
  <1>5. /\ account'[a].name = n /\ account'[a].email = account[a].email
        /\ account'[a].exists /\ ~account'[a].withdrawn
    BY <1>0, <1>2, <1>4 DEF Account
  <1>6. Shapes'
    BY <1>0, <1>2, <1>3, <1>4 DEF Sound, Shapes
  <1>7. Present'
    <2>1. \A b \in Ids : /\ account'[b].exists <=> account[b].exists
                         /\ account'[b].withdrawn <=> account[b].withdrawn
                         /\ ~account'[b].exists => account'[b] = account[b]
      BY <1>0, <1>2, <1>4, <1>5
    <2>2. \A d \in Calls : call'[d] # Ended => call[d].by \in Ids
      BY <1>3, Sender DEF Sound
    <2>3. \A b \in Ids : ~account'[b].exists => account'[b] = NoAccount
      BY <2>1, Zenon DEF Sound, Present
    <2>4. \A b \in session' : account'[b].exists /\ ~account'[b].withdrawn
      BY <1>2, <2>1, Zenon DEF Sound, Present, Shapes
    <2>5. \A d \in Calls : call'[d] # Ended => account'[call'[d].by].exists
      BY <1>3, <2>1, <2>2, Zenon DEF Sound, Present
    <2> QED
      BY <2>3, <2>4, <2>5 DEF Present
  <1>8. Unique'
    <2>0. ASSUME NEW b \in Ids \ {a}, account[b].exists
          PROVE  /\ account[b].email = account[a].email => account[a].email = NoEmail
                 /\ account[b].name = account[a].name => account[a].name = NoName
      BY <1>0, <2>0 DEF Sound, Unique
    <2>1. \A b \in Ids : account[b].exists => account[b].name # n
      BY <1>1 DEF NameTaken
    <2>2. ASSUME NEW x \in Ids \ {a}, account'[x].exists
          PROVE  /\ account'[x].email = account'[a].email => account'[a].email = NoEmail
                 /\ account'[x].name = account'[a].name => account'[a].name = NoName
      <3>1. account'[x] = account[x]
        BY <1>4
      <3>2. account[x].exists
        BY <2>2, <3>1
      <3> QED
        BY <2>0, <2>1, <3>1, <3>2, <1>5
    <2>3. ASSUME NEW b \in Ids, NEW d \in Ids, b # d, account'[b].exists, account'[d].exists
          PROVE  /\ account'[b].email = account'[d].email => account'[b].email = NoEmail
                 /\ account'[b].name = account'[d].name => account'[b].name = NoName
      <3>1. CASE b # a /\ d # a
        BY <1>4, <2>3, <3>1 DEF Sound, Unique
      <3>2. CASE b = a
        BY <2>3, <2>2, <3>2
      <3>3. CASE d = a
        BY <2>3, <2>2, <3>3
      <3> QED
        BY <3>1, <3>2, <3>3
    <2>4. \A b \in Ids : account'[b].email \in Ids => account'[b].email = b
      BY <1>4, <1>5 DEF Sound, Unique
    <2>5. \A b \in Ids : account'[b].name \in Ids => account'[b].name = b
      BY <1>4, <1>5 DEF Sound, Unique
    <2> QED
      BY <2>3, <2>4, <2>5 DEF Unique
  <1>9. Profiled'
    <2>1. n # NoName /\ profile'[a] = "own" /\ \A b \in Ids \ {a} : profile'[b] = profile[b]
      BY <1>0, <1>2 DEF Sound, Shapes
    <2>2. ASSUME NEW b \in Ids \ {a} PROVE account'[b].name = NoName <=> profile'[b] = "none"
      BY <1>4, <2>1 DEF Sound, Profiled
    <2>3. account'[a].name # NoName /\ profile'[a] # "none"
      BY <1>5, <2>1
    <2> QED
      BY <2>2, <2>3 DEF Profiled
  <1>10. Blocked'
    BY <1>0, <1>2, <1>4, <1>5 DEF Sound, Blocked
  <1> QED
    BY <1>6, <1>7, <1>8, <1>9, <1>10 DEF Sound

LEMMA CredentialsSound ==
    ASSUME Sound, NEW c \in Calls, NEW e \in Emails, UpdateArcadeCredentials(c, e)
    PROVE  Sound'
  <1> DEFINE a == call[c].by
  <1>0. a \in Ids /\ account[a].exists /\ account[a] \in Account
    BY Sender DEF Sound, UpdateArcadeCredentials, Running, Ended, Shapes
  <1>1. /\ ~account[a].withdrawn
        /\ e = account[a].email \/ ~EmailTaken(e)
        /\ account' = [account EXCEPT ![a].email = e]
        /\ session' = session \ {a}
        /\ Finish(c) /\ UNCHANGED <<profile, ban, left, moderated, now>>
    BY DEF UpdateArcadeCredentials, MayChangeCredentials, Restricted
  <1>2. /\ call' \in [Calls -> {Ended} \cup Entered \cup Banning]
        /\ \A d \in Calls : call'[d] # Ended => call'[d] = call[d]
    BY <1>1, Finished DEF Sound
  <1> HIDE DEF a
  <1>3. /\ account \in [Ids -> Account] /\ account' \in [Ids -> Account]
        /\ \A b \in Ids \ {a} : account'[b] = account[b]
        /\ account'[a] = [account[a] EXCEPT !.email = e]
    BY <1>0, <1>1 DEF Sound, Shapes, Account
  <1>4. /\ account'[a].name = account[a].name /\ account'[a].email = e
        /\ account'[a].exists /\ ~account'[a].withdrawn
    BY <1>0, <1>1, <1>3 DEF Account
  <1>5. Shapes'
    BY <1>0, <1>1, <1>2, <1>3 DEF Sound, Shapes
  <1>6. Present'
    BY <1>0, <1>1, <1>2, <1>3, <1>4 DEF Sound, Present, Shapes, Entered, Banning
  <1>7. Unique'
    <2>0. ASSUME NEW b \in Ids \ {a}, account[b].exists
          PROVE  /\ account[b].email = account[a].email => account[a].email = NoEmail
                 /\ account[b].name = account[a].name => account[a].name = NoName
      BY <1>0, <2>0 DEF Sound, Unique
    <2>1. \A b \in Ids \ {a} : account[b].exists => account[b].email # e
      BY <1>0, <1>1 DEF EmailTaken, Sound, Unique
    <2>2. ASSUME NEW x \in Ids \ {a}, account'[x].exists
          PROVE  /\ account'[x].email = account'[a].email => account'[a].email = NoEmail
                 /\ account'[x].name = account'[a].name => account'[a].name = NoName
      <3>1. account'[x] = account[x]
        BY <1>3
      <3>2. account[x].exists
        BY <2>2, <3>1
      <3> QED
        BY <2>0, <2>1, <3>1, <3>2, <1>4
    <2>3. ASSUME NEW b \in Ids, NEW d \in Ids, b # d, account'[b].exists, account'[d].exists
          PROVE  /\ account'[b].email = account'[d].email => account'[b].email = NoEmail
                 /\ account'[b].name = account'[d].name => account'[b].name = NoName
      <3>1. CASE b # a /\ d # a
        BY <1>3, <2>3, <3>1 DEF Sound, Unique
      <3>2. CASE b = a
        BY <2>3, <2>2, <3>2
      <3>3. CASE d = a
        BY <2>3, <2>2, <3>3
      <3> QED
        BY <3>1, <3>2, <3>3
    <2>4. \A b \in Ids : account'[b].email \in Ids => account'[b].email = b
      BY <1>3, <1>4 DEF Sound, Unique
    <2>5. \A b \in Ids : account'[b].name \in Ids => account'[b].name = b
      BY <1>3, <1>4 DEF Sound, Unique
    <2> QED
      BY <2>3, <2>4, <2>5 DEF Unique
  <1>8. Profiled'
    BY <1>1, <1>3, <1>4 DEF Sound, Profiled
  <1>9. Blocked'
    BY <1>1, <1>3, <1>4 DEF Sound, Blocked
  <1> QED
    BY <1>5, <1>6, <1>7, <1>8, <1>9 DEF Sound

LEMMA ProfileSound ==
    ASSUME Sound, NEW c \in Calls, UpdateProfile(c)
    PROVE  Sound'
  <1> DEFINE a == call[c].by
  <1>0. a \in Ids
    BY Sender DEF Sound, UpdateProfile, Running, Ended
  <1>1. /\ profile[a] # "none" /\ profile' = [profile EXCEPT ![a] = "own"]
        /\ Finish(c) /\ UNCHANGED <<account, ban, session, left, moderated, now>>
    BY DEF UpdateProfile
  <1>2. /\ call' \in [Calls -> {Ended} \cup Entered \cup Banning]
        /\ \A d \in Calls : call'[d] # Ended => call'[d] = call[d]
    BY <1>1, Finished DEF Sound
  <1> HIDE DEF a
  <1>3. Shapes' /\ Present' /\ Profiled'
    BY <1>0, <1>1, <1>2 DEF Sound, Shapes, Present, Profiled
  <1>4. Unique' /\ Blocked'
    BY <1>1 DEF Sound, Unique, Blocked
  <1> QED
    BY <1>3, <1>4 DEF Sound

(* Signing in and the passage of time.                                     *)
LEMMA RestSound ==
    ASSUME Sound, Later \/ (\E a \in Ids : SignIn(a)) \/ UNCHANGED accountVars
    PROVE  Sound'
  <1>1. Shapes'
    BY DEF Sound, Shapes, Later, SignIn, accountVars
  <1>2. Present'
    BY DEF Sound, Present, Later, SignIn, accountVars
  <1>3. Unique' /\ Profiled' /\ Blocked'
    BY DEF Sound, Unique, Profiled, Blocked, Later, SignIn, accountVars
  <1> QED
    BY <1>1, <1>2, <1>3 DEF Sound

-------------------------------------------------------------------------------
LEMMA NextSound == Sound /\ [AccountsNext]_accountVars => Sound'
  <1> SUFFICES ASSUME Sound, [AccountsNext]_accountVars PROVE Sound'
    OBVIOUS
  <1> QED
    BY RegisterSound, CreateSound, WithdrawSound, StaffSound, RequestSound, SignUpSound,
       CredentialsSound, ProfileSound, RestSound DEF AccountsNext

LEMMA Soundness == AccountsSpec => []Sound
  BY InitSound, NextSound, PTL DEF AccountsSpec

(* The shape of the state; two accounts never share an address or a        *)
(* username, the tombstones of withdrawn ones included, and an account has *)
(* a profile exactly when it has a username.                               *)
THEOREM Typing == AccountsSpec => []AccountsTypeOK
  <1>1. Sound => AccountsTypeOK
    BY DEF Sound, Shapes, Unique, Profiled, AccountsTypeOK
  <1> QED
    BY <1>1, Soundness, PTL

(* The address given up by a withdrawal is blocked until the promised end, *)
(* unless staff touched the ban afterwards.                                *)
THEOREM BlocksHold == AccountsSpec => []WithdrawalBlocks
  <1>1. Sound => WithdrawalBlocks
    BY DEF Sound, Shapes, Blocked, WithdrawalBlocks, EmailBlocked, Active, Account, Ban
  <1> QED
    BY <1>1, Soundness, PTL

(* A step writes one account at most, of somebody who has not withdrawn;   *)
(* it replaces a username only by withdrawing.                             *)
Writes(a, r) ==
    /\ account' = [account EXCEPT ![a] = r]
    /\ ~account[a].withdrawn
    /\ account[a].name = NoName \/ r.name = account[a].name \/ r.withdrawn

LEMMA OneAccount ==
    ASSUME Sound, [AccountsNext]_accountVars
    PROVE  account' = account \/ \E a \in Ids : \E r : Writes(a, r)
  <1>1. ASSUME NEW a \in Ids, ~account[a].exists PROVE ~account[a].withdrawn /\ account[a].name = NoName
    BY <1>1 DEF Sound, Present, NoAccount
  <1>2. ASSUME NEW a \in Ids, NEW e \in Emails, Register(a, e) PROVE \E r : Writes(a, r)
    BY <1>1, <1>2 DEF Register, Writes
  <1>3. ASSUME NEW c \in Calls, NEW a \in Ids, NEW e \in Emails, NEW n \in Names, NEW o \in BOOLEAN,
               CreateManagedAccount(c, a, e, n, o)
        PROVE  \E r : Writes(a, r)
    BY <1>1, <1>3 DEF CreateManagedAccount, Writes
  <1>4. ASSUME NEW c \in Calls, call[c] # Ended PROVE call[c].by \in Ids /\ account[call[c].by] \in Account
    BY <1>4, Sender DEF Sound, Shapes
  <1>5. ASSUME NEW c \in Calls, SignUp(c) PROVE \E a \in Ids : \E r : Writes(a, r)
    <2> DEFINE a == call[c].by
    <2>1. a \in Ids
      BY <1>4, <1>5 DEF SignUp, Running, Ended
    <2>2. PICK n \in Names : account' = [account EXCEPT ![a].name = n]
      BY <1>5 DEF SignUp
    <2>3. ~account[a].withdrawn /\ account[a].name = NoName
      BY <1>5 DEF SignUp, MaySignUp
    <2>4. account' = [account EXCEPT ![a] = [account[a] EXCEPT !.name = n]]
      BY <2>2
    <2> QED
      BY <2>1, <2>3, <2>4 DEF Writes
  <1>6. ASSUME NEW c \in Calls, Withdraw(c) PROVE \E a \in Ids : \E r : Writes(a, r)
    <2> DEFINE a == call[c].by
               r == [account[a] EXCEPT !.email = a, !.name = a, !.official = FALSE, !.withdrawn = TRUE]
    <2>1. a \in Ids /\ account[a] \in Account
      BY <1>4, <1>6 DEF Withdraw, Running, Ended
    <2>2. ~account[a].withdrawn /\ account' = [account EXCEPT ![a] = r]
      BY <1>6 DEF Withdraw
    <2>3. r.withdrawn
      BY <2>1 DEF Account
    <2> HIDE DEF r
    <2> QED
      BY <2>1, <2>2, <2>3 DEF Writes
  <1>7. ASSUME NEW c \in Calls, NEW e \in Emails, UpdateArcadeCredentials(c, e)
        PROVE  \E a \in Ids : \E r : Writes(a, r)
    <2> DEFINE a == call[c].by
               r == [account[a] EXCEPT !.email = e]
    <2>1. a \in Ids /\ account[a] \in Account
      BY <1>4, <1>7 DEF UpdateArcadeCredentials, Running, Ended
    <2>2. ~account[a].withdrawn /\ account' = [account EXCEPT ![a] = r]
      BY <1>7 DEF UpdateArcadeCredentials, MayChangeCredentials, Restricted
    <2>3. r.name = account[a].name
      BY <2>1 DEF Account
    <2> HIDE DEF r
    <2> QED
      BY <2>1, <2>2, <2>3 DEF Writes
  <1>8. CASE \/ UNCHANGED accountVars \/ Later
             \/ \E a \in Ids : SignIn(a)
             \/ \E c \in Calls, a \in Ids, k \in Kinds : Enter(c, a, k)
             \/ \E c \in Calls : Refuse(c) \/ CreateOrUpdateUserBan(c) \/ UpdateProfile(c)
             \/ \E c \in Calls, a \in Ids, t \in {now + 1, Forever} : ReadBanned(c, a, t)
             \/ \E c \in Calls, a \in Ids : DeleteUserBan(c, a)
    BY <1>8 DEF accountVars, Later, SignIn, Enter, Refuse, CreateOrUpdateUserBan, UpdateProfile,
                ReadBanned, DeleteUserBan
  <1> QED
    BY <1>2, <1>3, <1>5, <1>6, <1>7, <1>8 DEF AccountsNext

(* A withdrawn account is over: no request that entered before it, no      *)
(* staff and no sign-in changes the account or has a session of it.        *)
THEOREM WithdrawalIsFinal == AccountsSpec => WithdrawnIsFinal
  <1> DEFINE Final == \A a \in Ids : account[a].withdrawn => account'[a] = account[a] /\ a \notin session'
  <1>1. Sound /\ [AccountsNext]_accountVars => Final
    <2> SUFFICES ASSUME Sound, [AccountsNext]_accountVars, NEW a \in Ids, account[a].withdrawn
                 PROVE  account'[a] = account[a] /\ a \notin session'
      OBVIOUS
    <2>1. account \in [Ids -> Account]
      BY DEF Sound, Shapes
    <2>2. ASSUME NEW b \in Ids, NEW r, Writes(b, r) PROVE account'[a] = account[a]
      BY <2>1, <2>2 DEF Writes
    <2>3. account'[a] = account[a]
      BY <2>1, <2>2, OneAccount
    <2>4. \A b \in session' : ~account'[b].withdrawn
      BY NextSound DEF Sound, Present
    <2> QED
      BY <2>3, <2>4, Zenon
  <1> QED
    BY <1>1, Soundness, PTL DEF AccountsSpec, WithdrawnIsFinal

(* A username is chosen once, however many sign-ups are sent at the same   *)
(* time; only the withdrawal replaces it.                                  *)
THEOREM NamedOnce == AccountsSpec => NameIsChosenOnce
  <1> DEFINE Once == \A a \in Ids : account[a].name # NoName =>
                        account'[a].name = account[a].name \/ account'[a].withdrawn
  <1>1. Sound /\ [AccountsNext]_accountVars => Once
    <2> SUFFICES ASSUME Sound, [AccountsNext]_accountVars, NEW a \in Ids, account[a].name # NoName
                 PROVE  account'[a].name = account[a].name \/ account'[a].withdrawn
      OBVIOUS
    <2>1. account \in [Ids -> Account]
      BY DEF Sound, Shapes
    <2>2. ASSUME NEW b \in Ids, NEW r, Writes(b, r)
          PROVE  account'[a].name = account[a].name \/ account'[a].withdrawn
      <3>1. CASE a = b
        <4>1. account'[a] = r
          BY <2>1, <2>2, <3>1 DEF Writes
        <4> QED
          BY <2>2, <3>1, <4>1 DEF Writes
      <3>2. CASE a # b
        BY <2>1, <2>2, <3>2 DEF Writes
      <3> QED
        BY <3>1, <3>2
    <2> QED
      BY <2>2, OneAccount
  <1> QED
    BY <1>1, Soundness, PTL DEF AccountsSpec, NameIsChosenOnce

(* Accounts keep their shape and the blocks of withdrawals hold, together. *)
THEOREM SoundAccounts == AccountsSpec => []AccountsAreSound
  <1>1. AccountsTypeOK /\ WithdrawalBlocks => AccountsAreSound
    BY DEF AccountsAreSound
  <1> QED
    BY <1>1, Typing, BlocksHold, PTL

(* Whoever is under way, what was withdrawn or named stays so.             *)
THEOREM OnlyTheirs == AccountsSpec => OnlyTheirsChanges
  BY WithdrawalIsFinal, NamedOnce DEF OnlyTheirsChanges

HIDE AccountsAssumption DEF AccountsAssumption

-------------------------------------------------------------------------------
(* Supporters and the notice board of an arcade.  The score of a user is a *)
(* sum over the first rows of the ledger, and does not change as rows are  *)
(* added.                                                                  *)

RowsOf(L, u, k) == {i \in 1..k : L[i].user = u}
ExpIn(L, u, k) == MapThenSumSet(LAMBDA i : L[i].exp, RowsOf(L, u, k))
Exps(L, S) == [i \in S |-> L[i].exp]

LEMMA ExpIsSum ==
    ASSUME NEW L, NEW u, NEW k
    PROVE  ExpIn(L, u, k) = SumOver(Exps(L, RowsOf(L, u, k)), RowsOf(L, u, k))
  <1> DEFINE E       == RowsOf(L, u, k)
             F       == Exps(L, E)
             P(s, g) == IF s = {} THEN 0 ELSE L[Choice(s)].exp + g[s \ {Choice(s)}]
             Q(s, g) == IF s = {} THEN 0 ELSE F[Choice(s)] + g[s \ {Choice(s)}]
  <1>1. ASSUME NEW g PROVE [s \in SUBSET E |-> P(s, g)] = [s \in SUBSET E |-> Q(s, g)]
    <2> HIDE DEF E
    <2>1. ASSUME NEW s \in SUBSET E, s # {} PROVE F[Choice(s)] = L[Choice(s)].exp
      <3>1. Choice(s) \in E
        BY <2>1 DEF Choice
      <3> QED
        BY <3>1 DEF Exps
    <2>2. ASSUME NEW s \in SUBSET E PROVE P(s, g) = Q(s, g)
      <3> HIDE DEF F
      <3> QED
        BY <2>1
    <2> HIDE DEF P, Q
    <2> QED
      BY <2>2
  <1>2. ExpIn(L, u, k) = (CHOOSE g : g = [s \in SUBSET E |-> P(s, g)])[E]
    BY Zenon DEF ExpIn, MapThenSumSet, MapThenFoldSet, Choice
  <1>3. SumOver(F, E) = (CHOOSE g : g = [s \in SUBSET E |-> Q(s, g)])[E]
    BY Zenon DEF SumOver, MapThenSumSet, MapThenFoldSet, Choice
  <1>4. (CHOOSE g : g = [s \in SUBSET E |-> P(s, g)]) = (CHOOSE g : g = [s \in SUBSET E |-> Q(s, g)])
    <2>1. \A g : g = [s \in SUBSET E |-> P(s, g)] <=> g = [s \in SUBSET E |-> Q(s, g)]
      <3> HIDE DEF P, Q
      <3> QED
        BY <1>1
    <2> HIDE DEF P, Q
    <2> QED
      BY <2>1, Zenon
  <1> QED
    BY <1>2, <1>3, <1>4

(* The sum is an integer, and the first rows alone decide it.              *)
LEMMA ExpType ==
    ASSUME NEW L, NEW u, NEW k \in Nat, \A i \in 1..k : L[i].exp \in Int
    PROVE  ExpIn(L, u, k) \in Int
  <1> DEFINE S == RowsOf(L, u, k)
  <1>1. IsFiniteSet(S)
    <2>1. IsFiniteSet(1..k)
      BY ONLY k \in Nat, FS_Interval
    <2>2. S \subseteq 1..k
      BY DEF RowsOf
    <2> HIDE DEF S
    <2> QED
      BY <2>1, <2>2, FS_Subset
  <1>2. \A i \in S : Exps(L, S)[i] \in Int
    <2>1. \A i \in S : i \in 1..k
      BY DEF RowsOf
    <2> HIDE DEF S
    <2> QED
      BY <2>1 DEF Exps
  <1>3. SumOver(Exps(L, S), S) \in Int
    <2> HIDE DEF S
    <2> QED
      BY <1>1, <1>2, SumType DEF Summable
  <1> QED
    BY <1>3, ExpIsSum

LEMMA ExpStays ==
    ASSUME NEW L, NEW M, NEW u, NEW k \in Nat, \A i \in 1..k : L[i] = M[i]
    PROVE  ExpIn(L, u, k) = ExpIn(M, u, k)
  <1>1. RowsOf(L, u, k) = RowsOf(M, u, k)
    BY DEF RowsOf
  <1>2. Exps(L, RowsOf(L, u, k)) = Exps(M, RowsOf(L, u, k))
    <2>1. \A i \in RowsOf(L, u, k) : L[i] = M[i]
      BY DEF RowsOf
    <2> QED
      BY <2>1 DEF Exps
  <1> QED
    BY <1>1, <1>2, ExpIsSum

LEMMA ExpAfterIs == ASSUME NEW u, NEW k PROVE ExpAfter(u, k) = ExpIn(ledger, u, k)
  BY Zenon DEF ExpAfter, ExpIn, RowsOf

LEMMA ExpAfterNext == ASSUME NEW u, NEW k PROVE ExpAfter(u, k)' = ExpIn(ledger', u, k)
  BY Zenon DEF ExpAfter, ExpIn, RowsOf, MapThenSumSet, MapThenFoldSet
-------------------------------------------------------------------------------
(* Who supports                                                            *)

Earnings == [user : People, exp : Grants]
Snapshot == [user : People, score : Int]

\* The score is what its user had after some row, and it was enough.
Scored(L, u, score) == score >= Threshold /\ \E k \in 0..Len(L) : score = ExpIn(L, u, k)

Approved(R, u) == \E i \in 1..Len(R) : R[i].user = u /\ R[i].status = "approved"

Rightful ==
    /\ role \in [People -> SUBSET Tags]
    /\ \A u \in People : /\ "moderator" \in role[u] => u \in Moderators
                         /\ "arcade_owner" \in role[u] => u \in Managers
                         /\ "founding_supporter" \in role[u] <=> Approved(requests, u)

Asked ==
    /\ requests \in Seq(Request)
    /\ \A i \in 1..Len(requests) : Scored(ledger, requests[i].user, requests[i].score)

Asking ==
    /\ DOMAIN asking = Asks
    /\ \A q \in Asks : asking[q] # NoAsk =>
         asking[q] \in Snapshot /\ Scored(ledger, asking[q].user, asking[q].score)

SupportersInv == gone \subseteq People /\ ledger \in Seq(Earnings) /\ Rightful /\ Asked /\ Asking

LEMMA ScoredStays ==
    ASSUME NEW L \in Seq(Earnings), NEW row \in Earnings, NEW u, NEW score, Scored(L, u, score)
    PROVE  Scored(Append(L, row), u, score)
  <1> DEFINE M == Append(L, row)
  <1>1. Len(L) \in Nat /\ Len(M) = Len(L) + 1 /\ \A i \in 1..Len(L) : L[i] = M[i]
    OBVIOUS
  <1> HIDE DEF M
  <1>2. PICK k \in 0..Len(L) : score = ExpIn(L, u, k)
    BY DEF Scored
  <1>3. k \in Nat /\ k \in 0..Len(M) /\ \A i \in 1..k : L[i] = M[i]
    BY <1>1, <1>2
  <1>4. ExpIn(L, u, k) = ExpIn(M, u, k)
    BY <1>3, ExpStays
  <1>5. \E j \in 0..Len(M) : score = ExpIn(M, u, j)
    BY <1>2, <1>3, <1>4, Zenon
  <1>6. Scored(M, u, score)
    BY <1>5, Zenon DEF Scored
  <1> QED
    BY <1>6 DEF M

(* A request that is pending, or changed from pending to a decision.       *)
LEMMA ApprovedMore ==
    ASSUME NEW R \in Seq(Request), NEW x \in Request, x.status = "pending", NEW u
    PROVE  Approved(Append(R, x), u) <=> Approved(R, u)
  <1> DEFINE S == Append(R, x)
  <1>1. /\ Len(R) \in Nat /\ Len(S) = Len(R) + 1 /\ S[Len(R) + 1] = x
        /\ \A i \in 1..Len(R) : S[i] = R[i] /\ i \in 1..Len(S)
    OBVIOUS
  <1>2. \A i \in 1..Len(S) : i \in 1..Len(R) \/ i = Len(R) + 1
    BY <1>1
  <1> HIDE DEF S
  <1>3. Approved(S, u) <=> Approved(R, u)
    BY <1>1, <1>2 DEF Approved
  <1> QED
    BY <1>3 DEF S

Decided(S, R, i, decision) == S = [R EXCEPT ![i].status = decision]

\* What a decision leaves of the requests, and makes of who is approved.
Follows(S, R, i, decision, u) ==
    /\ S \in Seq(Request) /\ Len(S) = Len(R)
    /\ \A j \in 1..Len(R) : S[j].user = R[j].user /\ S[j].score = R[j].score
    /\ Approved(S, u) <=> Approved(R, u) \/ (decision = "approved" /\ u = R[i].user)

LEMMA ApprovedNow ==
    ASSUME NEW R \in Seq(Request), NEW i \in 1..Len(R), R[i].status = "pending",
           NEW decision \in {"approved", "rejected"}, NEW u,
           NEW S, Decided(S, R, i, decision)
    PROVE  Follows(S, R, i, decision, u)
  <1> DEFINE x == [R[i] EXCEPT !.status = decision]
  <1>1. R[i] \in Request
    OBVIOUS
  <1>2. x \in Request /\ x.user = R[i].user /\ x.score = R[i].score /\ x.status = decision
    BY <1>1 DEF Request
  <1>3. S = [R EXCEPT ![i] = x]
    BY DEF Decided
  <1> HIDE DEF x
  <1>4. /\ S \in Seq(Request) /\ Len(S) = Len(R) /\ S[i] = x
        /\ \A j \in 1..Len(R) : j # i => S[j] = R[j]
    BY <1>2, <1>3
  <1>5. Approved(S, u) <=> Approved(R, u) \/ (decision = "approved" /\ u = R[i].user)
    <2>1. ASSUME Approved(S, u) PROVE Approved(R, u) \/ (decision = "approved" /\ u = R[i].user)
      BY <1>2, <1>4, <2>1 DEF Approved
    <2>2. ASSUME Approved(R, u) PROVE Approved(S, u)
      BY <1>4, <2>2 DEF Approved
    <2>3. ASSUME decision = "approved", u = R[i].user PROVE Approved(S, u)
      BY <1>2, <1>4, <2>3 DEF Approved
    <2> QED
      BY <2>1, <2>2, <2>3
  <1>6. \A j \in 1..Len(R) : S[j].user = R[j].user /\ S[j].score = R[j].score
    BY <1>2, <1>4
  <1> QED
    BY <1>4, <1>5, <1>6, Zenon DEF Follows
USE SupportersAssumption DEF SupportersAssumption

LEMMA EarnKeeps ==
    ASSUME SupportersInv, NEW u \in People, NEW e \in Grants, Earn(u, e)
    PROVE  SupportersInv'
  <1> DEFINE row == [user |-> u, exp |-> e]
  <1>1. row \in Earnings
    BY DEF Earnings
  <1>2. ledger' = Append(ledger, row) /\ UNCHANGED <<role, gone, requests, asking>>
    BY Zenon DEF Earn
  <1>3. ledger \in Seq(Earnings)
    BY DEF SupportersInv
  <1> HIDE DEF row
  <1>4. ledger' \in Seq(Earnings)
    BY <1>1, <1>2, <1>3
  <1>5. ASSUME NEW v, NEW score, Scored(ledger, v, score) PROVE Scored(ledger', v, score)
    BY <1>1, <1>2, <1>3, <1>5, ScoredStays
  <1>6. Rightful'
    BY <1>2, Zenon DEF SupportersInv, Rightful
  <1>7. Asked'
    BY <1>2, <1>5, Zenon DEF SupportersInv, Asked
  <1>8. Asking'
    BY <1>2, <1>5, Zenon DEF SupportersInv, Asking
  <1> QED
    BY <1>2, <1>4, <1>6, <1>7, <1>8, Zenon DEF SupportersInv

LEMMA AskKeeps ==
    ASSUME SupportersInv, NEW q \in Asks, NEW u \in People, BuildSupporterScore(q, u)
    PROVE  SupportersInv'
  <1> DEFINE score == ExpIn(ledger, u, Len(ledger))
             ask   == [user |-> u, score |-> score]
  <1>1. Exp(u) = score
    BY ExpAfterIs DEF Exp
  <1>2. Len(ledger) \in Nat /\ \A i \in 1..Len(ledger) : ledger[i].exp \in Int
    <2>1. ledger \in Seq(Earnings)
      BY DEF SupportersInv
    <2>2. Len(ledger) \in Nat /\ \A i \in 1..Len(ledger) : ledger[i] \in Earnings
      BY <2>1
    <2>3. \A row \in Earnings : row.exp \in Int
      BY DEF Earnings
    <2> QED
      BY ONLY <2>2, <2>3
  <1>3. score \in Int
    <2> DEFINE n == Len(ledger)
    <2>1. n \in Nat /\ \A i \in 1..n : ledger[i].exp \in Int
      BY <1>2
    <2> HIDE DEF n
    <2>2. ExpIn(ledger, u, n) \in Int
      BY <2>1, ExpType
    <2> QED
      BY <2>2 DEF n
  <1>4. Scored(ledger, u, score)
    <2>1. score >= Threshold
      BY <1>1 DEF BuildSupporterScore, CanRequest, Qualified
    <2>2. Len(ledger) \in 0..Len(ledger)
      BY <1>2
    <2> QED
      BY <2>1, <2>2, Zenon DEF Scored
  <1> HIDE DEF score
  <1>5. ask \in Snapshot /\ ask.user = u /\ ask.score = score
    BY <1>3 DEF Snapshot
  <1>6. asking' = [asking EXCEPT ![q] = ask] /\ UNCHANGED <<role, gone, ledger, requests>>
    BY <1>1, Zenon DEF BuildSupporterScore
  <1> HIDE DEF ask
  <1>7. Asking'
    <2>1. DOMAIN asking' = Asks
      BY <1>6 DEF SupportersInv, Asking
    <2>2. ASSUME NEW p \in Asks, asking'[p] # NoAsk
          PROVE  asking'[p] \in Snapshot /\ Scored(ledger', asking'[p].user, asking'[p].score)
      <3>1. CASE p = q
        <4>1. asking'[q] = ask
          BY <1>6 DEF SupportersInv, Asking
        <4> QED
          BY <1>4, <1>5, <1>6, <3>1, <4>1
      <3>2. CASE p # q
        <4>1. asking'[p] = asking[p]
          BY <1>6, <3>2 DEF SupportersInv, Asking
        <4> QED
          BY <1>6, <2>2, <4>1 DEF SupportersInv, Asking
      <3> QED
        BY <3>1, <3>2
    <2> QED
      BY <2>1, <2>2, Zenon DEF Asking
  <1> QED
    BY <1>6, <1>7, Zenon DEF SupportersInv, Rightful, Asked

LEMMA RequestKeeps ==
    ASSUME SupportersInv, NEW q \in Asks, CreateSupporterRequest(q)
    PROVE  SupportersInv'
  <1> DEFINE x == [user |-> asking[q].user, status |-> "pending", score |-> asking[q].score]
  <1>1. asking[q] \in Snapshot /\ Scored(ledger, asking[q].user, asking[q].score)
    BY DEF SupportersInv, Asking, CreateSupporterRequest
  <1>2. x \in Request /\ x.status = "pending" /\ x.user = asking[q].user /\ x.score = asking[q].score
    BY <1>1 DEF Request, Snapshot
  <1>3. requests' = Append(requests, x) /\ asking' = [asking EXCEPT ![q] = NoAsk]
        /\ UNCHANGED <<role, gone, ledger>>
    BY Zenon DEF CreateSupporterRequest
  <1> HIDE DEF x
  <1>4. requests \in Seq(Request)
    BY DEF SupportersInv, Asked
  <1>5. \A u \in People : Approved(requests', u) <=> Approved(requests, u)
    BY <1>2, <1>3, <1>4, ApprovedMore
  <1>6. Rightful'
    BY <1>3, <1>5, Zenon DEF SupportersInv, Rightful
  <1>7. Asked'
    <2>1. /\ requests' \in Seq(Request) /\ Len(requests') = Len(requests) + 1
          /\ Len(requests) \in Nat /\ requests'[Len(requests) + 1] = x
          /\ \A i \in 1..Len(requests) : requests'[i] = requests[i]
      BY <1>2, <1>3, <1>4
    <2>2. ASSUME NEW i \in 1..Len(requests')
          PROVE  Scored(ledger', requests'[i].user, requests'[i].score)
      <3>1. CASE i \in 1..Len(requests)
        BY <1>3, <2>1, <3>1 DEF SupportersInv, Asked
      <3>2. CASE i = Len(requests) + 1
        BY <1>1, <1>2, <1>3, <2>1, <3>2
      <3> QED
        BY <2>1, <3>1, <3>2
    <2> QED
      BY <2>1, <2>2, Zenon DEF Asked
  <1>8. Asking'
    BY <1>3 DEF SupportersInv, Asking
  <1> QED
    BY <1>3, <1>6, <1>7, <1>8, Zenon DEF SupportersInv

LEMMA ReviewKeeps ==
    ASSUME SupportersInv, NEW i \in 1..MaxRequests, NEW decision \in {"approved", "rejected"},
           ReviewSupporterRequest(i, decision)
    PROVE  SupportersInv'
  <1> DEFINE u == requests[i].user
  <1>1. requests \in Seq(Request) /\ i \in 1..Len(requests) /\ requests[i].status = "pending"
    BY DEF SupportersInv, Asked, ReviewSupporterRequest
  <1>2. u \in People
    <2>1. requests[i] \in Request
      BY <1>1
    <2> QED
      BY <2>1 DEF Request
  <1>3. /\ requests' = [requests EXCEPT ![i].status = decision]
        /\ role' = IF decision = "approved" THEN [role EXCEPT ![u] = @ \cup {"founding_supporter"}]
                                            ELSE role
        /\ UNCHANGED <<gone, ledger, asking>>
    BY Zenon DEF ReviewSupporterRequest
  <1> HIDE DEF u
  <1>4. /\ requests' \in Seq(Request) /\ Len(requests') = Len(requests)
        /\ \A j \in 1..Len(requests) : /\ requests'[j].user = requests[j].user
                                       /\ requests'[j].score = requests[j].score
        /\ \A v \in People :
             Approved(requests', v) <=> Approved(requests, v) \/ (decision = "approved" /\ v = u)
    <2>1. ASSUME NEW v \in People
          PROVE  /\ requests' \in Seq(Request) /\ Len(requests') = Len(requests)
                 /\ \A j \in 1..Len(requests) : /\ requests'[j].user = requests[j].user
                                                /\ requests'[j].score = requests[j].score
                 /\ Approved(requests', v) <=>
                      Approved(requests, v) \/ (decision = "approved" /\ v = requests[i].user)
      <3>1. Decided(requests', requests, i, decision)
        BY <1>3, Zenon DEF Decided
      <3>2. Follows(requests', requests, i, decision, v)
        BY <1>1, <3>1, ApprovedNow, ZenonT(60)
      <3> QED
        BY <3>2, Zenon DEF Follows
    <2>2. u = requests[i].user
      BY DEF u
    <2>3. /\ requests' \in Seq(Request) /\ Len(requests') = Len(requests)
          /\ \A j \in 1..Len(requests) : /\ requests'[j].user = requests[j].user
                                         /\ requests'[j].score = requests[j].score
      BY <1>2, <2>1, Zenon
    <2>4. ASSUME NEW v \in People
          PROVE  Approved(requests', v) <=> Approved(requests, v) \/ (decision = "approved" /\ v = u)
      BY <2>1, <2>2, Zenon
    <2> QED
      BY <2>3, <2>4, Zenon
  <1>5. Asked'
    BY <1>3, <1>4, Zenon DEF SupportersInv, Asked
  <1>6. Rightful'
    <2>1. role' \in [People -> SUBSET Tags]
      BY <1>2, <1>3 DEF SupportersInv, Rightful, Tags
    <2>2. ASSUME NEW v \in People
          PROVE  /\ "moderator" \in role'[v] => v \in Moderators
                 /\ "arcade_owner" \in role'[v] => v \in Managers
                 /\ "founding_supporter" \in role'[v] <=> Approved(requests', v)
      <3>1. role'[v] = IF decision = "approved" /\ v = u THEN role[v] \cup {"founding_supporter"}
                                                         ELSE role[v]
        BY <1>2, <1>3 DEF SupportersInv, Rightful
      <3> QED
        BY <1>4, <3>1 DEF SupportersInv, Rightful
    <2> QED
      BY <2>1, <2>2, Zenon DEF Rightful
  <1>7. Asking'
    BY <1>3, Zenon DEF SupportersInv, Asking
  <1> QED
    BY <1>3, <1>5, <1>6, <1>7, Zenon DEF SupportersInv

LEMMA DepartKeeps ==
    ASSUME SupportersInv, NEW u \in People, Depart(u)
    PROVE  SupportersInv'
  <1>1. /\ gone' = gone \cup {u} /\ role' = [role EXCEPT ![u] = @ \ {"arcade_owner"}]
        /\ UNCHANGED <<ledger, requests, asking>>
    BY Zenon DEF Depart
  <1>2. \A v \in People : role'[v] = IF v = u THEN role[v] \ {"arcade_owner"} ELSE role[v]
    BY <1>1 DEF SupportersInv, Rightful
  <1>3. role' \in [People -> SUBSET Tags]
    BY <1>1 DEF SupportersInv, Rightful
  <1>4. Rightful'
    <2>1. ASSUME NEW v \in People
          PROVE  /\ "moderator" \in role'[v] => v \in Moderators
                 /\ "arcade_owner" \in role'[v] => v \in Managers
                 /\ "founding_supporter" \in role'[v] <=> Approved(requests', v)
      BY <1>1, <1>2 DEF SupportersInv, Rightful
    <2> QED
      BY <1>3, <2>1, Zenon DEF Rightful
  <1>5. gone' \subseteq People
    BY <1>1 DEF SupportersInv
  <1> QED
    BY <1>1, <1>4, <1>5, Zenon DEF SupportersInv, Asked, Asking

LEMMA SupportersKept ==
    ASSUME SupportersInv, SupportersNext
    PROVE  SupportersInv'
  BY EarnKeeps, AskKeeps, RequestKeeps, ReviewKeeps, DepartKeeps, Zenon DEF SupportersNext

LEMMA SupportersBegin == SupportersInit => SupportersInv
  <1> SUFFICES ASSUME SupportersInit PROVE SupportersInv
    OBVIOUS
  <1>1. gone = {} /\ ledger = <<>> /\ requests = <<>> /\ asking = [q \in Asks |-> NoAsk]
    BY DEF SupportersInit
  <1>2. \A u \in People : ~Approved(requests, u)
    BY <1>1 DEF Approved
  <1>3. Rightful
    <2>1. \A u \in People : role[u] = (IF u \in Moderators THEN {"moderator"} ELSE {})
                                      \cup (IF u \in Managers THEN {"arcade_owner"} ELSE {})
      BY DEF SupportersInit
    <2>2. role \in [People -> SUBSET Tags]
      BY DEF SupportersInit, Tags
    <2> QED
      BY <1>2, <2>1, <2>2 DEF Rightful
  <1>4. Asked /\ Asking
    BY <1>1 DEF Asked, Asking
  <1> QED
    BY <1>1, <1>3, <1>4 DEF SupportersInv

LEMMA SupportersHold == SupportersInv => SupportersTypeOK /\ SupportersEarnedIt
  <1> SUFFICES ASSUME SupportersInv PROVE SupportersTypeOK /\ SupportersEarnedIt
    OBVIOUS
  <1>1. SupportersTypeOK
    BY DEF SupportersInv, SupportersTypeOK, Rightful, Asked, Asking, Earnings, Snapshot
  <1>2. DOMAIN requests = 1..Len(requests)
    BY DEF SupportersInv, Asked
  <1>3. ASSUME NEW u \in People
        PROVE  "founding_supporter" \in role[u]
                 <=> \E i \in RequestsOf(u) : requests[i].status = "approved"
    BY <1>2, <1>3 DEF SupportersInv, Rightful, Approved, RequestsOf
  <1>4. ASSUME NEW i \in DOMAIN requests
        PROVE  /\ requests[i].score >= Threshold
               /\ \E k \in 0..Len(ledger) : requests[i].score = ExpAfter(requests[i].user, k)
    BY <1>2, <1>4, ExpAfterIs, Zenon DEF SupportersInv, Asked, Scored
  <1> QED
    BY <1>1, <1>3, <1>4, Zenon DEF SupportersEarnedIt-------------------------------------------------------------------------------
(* The order of an answer                                                  *)

(* Rows every two of which stand in one order.                             *)
Ranked(S) ==
    /\ \A a, b \in S : a # b => ListedBefore(a, b) \/ ListedBefore(b, a)
    /\ \A a \in S : ~ListedBefore(a, a)
    /\ \A a, b, c \in S : ListedBefore(a, b) /\ ListedBefore(b, c) => ListedBefore(a, c)

Listing(list, S) ==
    /\ list \in [1..Cardinality(S) -> S]
    /\ \A i, j \in 1..Cardinality(S) : i < j => ListedBefore(list[i], list[j])

LEMMA LastOfAll ==
    ASSUME NEW S, IsFiniteSet(S), S # {}, Ranked(S)
    PROVE  \E x \in S : \A y \in S \ {x} : ListedBefore(y, x)
  <1> DEFINE Up(x) == {y \in S : y = x \/ ListedBefore(x, y)}
             F     == {Up(x) : x \in S}
  <1>1. F \subseteq SUBSET S /\ F # {}
    OBVIOUS
  <1>2. PICK T \in F : \A U \in F : U \subseteq T => U = T
    <2> HIDE DEF F
    <2> QED
      BY <1>1, SmallestSet
  <1>3. PICK x \in S : T = Up(x)
    BY <1>2
  <1>4. ASSUME NEW y \in S \ {x} PROVE ListedBefore(y, x)
    <2> SUFFICES ASSUME ListedBefore(x, y) PROVE FALSE
      BY DEF Ranked
    <2>1. Up(y) \subseteq T
      BY <1>3 DEF Ranked
    <2>2. Up(y) \in F
      OBVIOUS
    <2>3. x \in Up(y)
      <3>1. Up(y) = T
        BY <1>2, <2>1, <2>2
      <3> QED
        BY <1>3, <3>1
    <2>4. ListedBefore(y, x)
      BY <2>3
    <2> QED
      BY <2>4 DEF Ranked
  <1> QED
    BY <1>4

LEMMA ListingExists ==
    ASSUME NEW S, IsFiniteSet(S), Ranked(S)
    PROVE  \E list : Listing(list, S)
  <1> DEFINE F == {T \in SUBSET S : ~ \E list : Listing(list, T)}
  <1> SUFFICES ASSUME F # {} PROVE FALSE
    <2>1. S \in SUBSET S
      OBVIOUS
    <2> QED
      BY <2>1
  <1>1. PICK T \in F : \A U \in F : U \subseteq T => U = T
    <2>1. F \subseteq SUBSET S
      OBVIOUS
    <2> HIDE DEF F
    <2> QED
      BY <2>1, SmallestSet
  <1>2. T \subseteq S /\ IsFiniteSet(T) /\ Ranked(T)
    <2>1. T \subseteq S
      BY <1>1
    <2> QED
      BY <2>1, FS_Subset DEF Ranked
  <1>3. T # {}
    <2>1. Listing(<<>>, {})
      BY FS_EmptySet DEF Listing
    <2> QED
      BY <1>1, <2>1
  <1>4. PICK x \in T : \A y \in T \ {x} : ListedBefore(y, x)
    BY <1>2, <1>3, LastOfAll
  <1> DEFINE R == T \ {x}
             k == Cardinality(R)
  <1>5. k \in Nat /\ Cardinality(T) = k + 1
    <2>1. IsFiniteSet(R) /\ k = Cardinality(T) - 1
      <3> HIDE DEF k
      <3>1. IsFiniteSet(R) /\ Cardinality(R) = Cardinality(T) - 1
        BY <1>2, <1>4, FS_RemoveElement
      <3> QED
        BY <3>1 DEF k
    <2>2. Cardinality(T) \in Nat /\ Cardinality(R) \in Nat
      BY <1>2, <2>1, FS_CardinalityType
    <2> QED
      BY <2>1, <2>2
  <1>6. PICK l : Listing(l, R)
    <2>1. R \in SUBSET S /\ R \subseteq T /\ R # T
      BY <1>2
    <2>2. R \notin F
      <3> HIDE DEF R, F
      <3> QED
        BY <1>1, <2>1
    <2> QED
      BY <2>1, <2>2
  <1> DEFINE m == [i \in 1..(k + 1) |-> IF i = k + 1 THEN x ELSE l[i]]
  <1>7. l \in [1..k -> R] /\ \A i, j \in 1..k : i < j => ListedBefore(l[i], l[j])
    BY <1>6 DEF Listing
  <1>8. \A i \in 1..(k + 1) : i \in 1..k \/ i = k + 1
    BY <1>5
  <1>9. \A i \in 1..k : m[i] = l[i] /\ l[i] \in T /\ l[i] # x
    <2>1. \A i \in 1..k : l[i] \in T /\ l[i] # x
      <3> HIDE DEF k
      <3> QED
        BY <1>7
    <2>2. \A i \in 1..k : i \in 1..(k + 1) /\ i # k + 1
      BY <1>5
    <2>3. \A i \in 1..k : m[i] = l[i]
      <3> HIDE DEF k
      <3> QED
        BY <2>2, Zenon
    <2> QED
      BY <2>1, <2>3
  <1>10. m[k + 1] = x
    <2> HIDE DEF k
    <2> QED
      BY <1>5
  <1>11. m \in [1..(k + 1) -> T]
    <2>1. \A i \in 1..(k + 1) : m[i] \in T
      <3> HIDE DEF m, k
      <3> QED
        BY <1>8, <1>9, <1>10
    <2> QED
      BY <2>1
  <1>12. ASSUME NEW i \in 1..(k + 1), NEW j \in 1..(k + 1), i < j
         PROVE  ListedBefore(m[i], m[j])
    <2> HIDE DEF m, k
    <2>1. i \in 1..k
      BY <1>5, <1>12
    <2>2. CASE j \in 1..k
      BY <1>7, <1>9, <1>12, <2>1, <2>2
    <2>3. CASE j = k + 1
      <3>1. m[i] \in T \ {x}
        BY <1>9, <2>1
      <3> QED
        BY <1>4, <1>10, <2>3, <3>1
    <2> QED
      BY <1>8, <2>2, <2>3
  <1>13. Listing(m, T)
    <2> HIDE DEF m, k
    <2> QED
      BY <1>5, <1>11, <1>12 DEF Listing
  <1> QED
    BY <1>1, <1>13

LEMMA InOrderIs ==
    ASSUME NEW S, IsFiniteSet(S), Ranked(S)
    PROVE  Listing(InOrder(S), S)
  <1>1. PICK list : Listing(list, S)
    BY ListingExists
  <1> QED
    BY <1>1, Zenon DEF Listing, InOrder-------------------------------------------------------------------------------
(* The rows                                                                *)

USE NoticesAssumption DEF NoticesAssumption

Out(row, t)     == row.until # Never /\ row.until <= t
Visible(row, t) == row.state = "kept" /\ ~Out(row, t)
On(N, t, mode)  == {n \in Notices : N[n].mode = mode /\ Visible(N[n], t)}
Beside(N, t, mode, n) == {m \in Notices \ {n} : N[m].mode = mode /\ Visible(N[m], t)}

Limited == {"required", "pinned"}

Fits(N, t) == \A mode \in Limited : Cardinality(On(N, t, mode)) <= Slots(mode)

\* The check of the limits for one row.
Room(N, n, row, t) ==
    row.mode \in Limited /\ Visible(row, t) =>
        Cardinality(Beside(N, t, row.mode, n)) < Slots(row.mode)

\* Whatever was kept when its day came is noted, and so is what was deleted.
Dated(N, t, L) ==
    \A n \in Notices : /\ N[n].state = "kept" /\ N[n].until <= t => n \in L
                       /\ n \in L => N[n].state # "none"
Reasons(N, L, R) == \A n \in Notices : N[n].state = "deleted" => n \in L \cup R

\* Every notice has a moment of creation of its own.
Aged(N, m) ==
    /\ \A n \in Notices : N[n].created <= m /\ (N[n].state = "none" => N[n].created = 0)
    /\ \A n, k \in Notices : n # k /\ N[n].state # "none" /\ N[k].state # "none"
                               => N[n].created # N[k].created

Board(N, t, L, R, m) ==
    /\ N \in [Notices -> Notice]
    /\ Fits(N, t) /\ Dated(N, t, L) /\ Reasons(N, L, R) /\ Aged(N, m)

LEMMA SlotsType == \A mode : Slots(mode) \in Nat /\ Slots(mode) >= 1
  BY DEF Slots

LEMMA Fewer ==
    ASSUME NEW B, B \subseteq Notices, NEW A, A \subseteq B, NEW k \in Nat, Cardinality(B) <= k
    PROVE  Cardinality(A) <= k
  <1>1. IsFiniteSet(B)
    BY FS_Subset
  <1>2. IsFiniteSet(A) /\ Cardinality(A) <= Cardinality(B)
    BY <1>1, FS_Subset
  <1>3. Cardinality(A) \in Nat /\ Cardinality(B) \in Nat
    BY <1>1, <1>2, FS_CardinalityType
  <1> QED
    BY <1>2, <1>3

LEMMA FitsWith ==
    ASSUME NEW N \in [Notices -> Notice], NEW t, Fits(N, t), NEW n \in Notices,
           NEW row \in Notice, Room(N, n, row, t), NEW M, M = [N EXCEPT ![n] = row]
    PROVE  Fits(M, t)
  <1>1. M[n] = row /\ \A m \in Notices \ {n} : M[m] = N[m]
    OBVIOUS
  <1>2. ASSUME NEW mode \in Limited PROVE Cardinality(On(M, t, mode)) <= Slots(mode)
    <2>1. CASE row.mode = mode /\ Visible(row, t)
      <3> DEFINE B == Beside(N, t, mode, n)
      <3>1. On(M, t, mode) = B \cup {n} /\ n \notin B
        BY <1>1, <2>1, Zenon DEF On, Beside
      <3>2. IsFiniteSet(B)
        <4>1. B \subseteq Notices
          BY DEF Beside
        <4> QED
          BY <4>1, FS_Subset
      <3>3. Cardinality(B) < Slots(mode)
        BY <1>2, <2>1, Zenon DEF Room
      <3> HIDE DEF B
      <3>4. Cardinality(B \cup {n}) = Cardinality(B) + 1 /\ Cardinality(B) \in Nat
        BY <3>1, <3>2, FS_AddElement, FS_CardinalityType
      <3>5. Slots(mode) \in Nat
        BY SlotsType
      <3>6. Cardinality(On(M, t, mode)) = Cardinality(B) + 1
        BY <3>1, <3>4, Zenon
      <3> QED
        BY ONLY <3>3, <3>4, <3>5, <3>6
    <2>2. CASE ~ (row.mode = mode /\ Visible(row, t))
      <3>1. On(M, t, mode) \subseteq On(N, t, mode)
        BY <1>1, <2>2, Zenon DEF On
      <3>2. On(N, t, mode) \subseteq Notices
        BY DEF On
      <3>3. Cardinality(On(N, t, mode)) <= Slots(mode)
        BY <1>2, Zenon DEF Fits
      <3> QED
        BY <3>1, <3>2, <3>3, SlotsType, Fewer
    <2> QED
      BY <2>1, <2>2
  <1> QED
    BY <1>2 DEF Fits

(* A row is new, or changes and keeps its age.                             *)
Saves(N, t, L, R, m, M, K, S, k) ==
    \E n \in Notices, row \in Notice :
      /\ M = [N EXCEPT ![n] = row]
      /\ row.state # "none" /\ Room(N, n, row, t)
      /\ L \subseteq K /\ K \subseteq L \cup {n}
      /\ row.state = "kept" /\ row.until <= t => n \in K
      /\ R \subseteq S /\ (row.state = "deleted" => n \in K \cup S)
      /\ \/ N[n].state # "none" /\ row.created = N[n].created /\ k = m
         \/ row.created = m + 1 /\ k = m + 1

LEMMA RowChanges ==
    ASSUME NEW N, NEW t, NEW L, NEW R, NEW m \in Nat, Board(N, t, L, R, m),
           NEW M, NEW K, NEW S, NEW k, Saves(N, t, L, R, m, M, K, S, k)
    PROVE  Board(M, t, K, S, k)
  <1>0. PICK n \in Notices, row \in Notice :
          /\ M = [N EXCEPT ![n] = row]
          /\ row.state # "none" /\ Room(N, n, row, t)
          /\ L \subseteq K /\ K \subseteq L \cup {n}
          /\ row.state = "kept" /\ row.until <= t => n \in K
          /\ R \subseteq S /\ (row.state = "deleted" => n \in K \cup S)
          /\ \/ N[n].state # "none" /\ row.created = N[n].created /\ k = m
             \/ row.created = m + 1 /\ k = m + 1
    BY Zenon DEF Saves
  <1>1. N \in [Notices -> Notice]
    BY DEF Board
  <1>2. M \in [Notices -> Notice] /\ M[n] = row /\ \A i \in Notices : i # n => M[i] = N[i]
    BY <1>0, <1>1
  <1>3. Fits(M, t)
    BY <1>0, <1>1, FitsWith DEF Board
  <1>4. Dated(M, t, K)
    <2>1. \A i \in Notices : i # n /\ i \in K => i \in L
      BY <1>0
    <2> QED
      BY <1>0, <1>2, <2>1, Zenon DEF Board, Dated
  <1>5. Reasons(M, K, S)
    BY <1>0, <1>2, Zenon DEF Board, Reasons
  <1>6. Aged(M, k)
    <2>1. \A i \in Notices : N[i].created \in Nat /\ N[i].created <= m
      BY <1>1 DEF Board, Aged, Notice
    <2>2. ASSUME NEW i \in Notices
          PROVE  M[i].created <= k /\ (M[i].state = "none" => M[i].created = 0)
      <3>1. CASE i = n
        <4>1. \/ row.created = N[n].created /\ k = m
              \/ row.created = m + 1 /\ k = m + 1
          BY <1>0, Zenon
        <4>2. N[n].created \in Nat /\ N[n].created <= m
          BY <2>1
        <4>3. row.created <= k
          BY ONLY <4>1, <4>2, m \in Nat
        <4> QED
          BY <1>0, <1>2, <3>1, <4>3, Zenon
      <3>2. CASE i # n
        <4>1. N[i].created <= k
          <5>1. k = m \/ k = m + 1
            BY <1>0, Zenon
          <5>2. N[i].created \in Nat /\ N[i].created <= m
            BY <2>1
          <5> QED
            BY ONLY <5>1, <5>2, m \in Nat
        <4>2. N[i].state = "none" => N[i].created = 0
          BY DEF Board, Aged
        <4> QED
          BY <1>2, <3>2, <4>1, <4>2, Zenon
      <3> QED
        BY <3>1, <3>2
    <2>3. ASSUME NEW i \in Notices, i # n, N[i].state # "none" PROVE N[i].created # row.created
      <3>1. CASE N[n].state # "none" /\ row.created = N[n].created
        BY <2>3, <3>1 DEF Board, Aged
      <3>2. CASE row.created = m + 1
        BY <2>1, <3>2
      <3> QED
        BY <1>0, <3>1, <3>2, Zenon
    <2>4. ASSUME NEW i \in Notices, NEW j \in Notices, i # j,
                 M[i].state # "none", M[j].state # "none"
          PROVE  M[i].created # M[j].created
      <3>1. CASE i = n
        BY <1>2, <2>3, <2>4, <3>1, Zenon
      <3>2. CASE j = n
        BY <1>2, <2>3, <2>4, <3>2, Zenon
      <3>3. CASE i # n /\ j # n
        BY <1>2, <2>4, <3>3, Zenon DEF Board, Aged
      <3> QED
        BY <3>1, <3>2, <3>3
    <2> QED
      BY <2>2, <2>4, Zenon DEF Aged
  <1> QED
    BY <1>2, <1>3, <1>4, <1>5, <1>6, Zenon DEF Board-------------------------------------------------------------------------------
(* The notice board                                                        *)

Answered(rows) ==
    \A i, j \in DOMAIN rows : i < j =>
        /\ rows[j].mode # "required"
        /\ rows[i].mode = "normal" => rows[j].mode = "normal"
        /\ rows[i].mode = "pinned" /\ rows[j].mode = "pinned" =>
             rows[i].priority <= rows[j].priority

View == [expire : SUBSET Notices, answer : Seq(Notice)]

Writing ==
    /\ DOMAIN write = Editors
    /\ \A c \in Editors : write[c] # Idle =>
         /\ write[c].by \in People
         /\ "moderator" \in write[c].tags => write[c].by \in Moderators
         /\ "arcade_owner" \in write[c].tags => write[c].by \in Managers

\* What a reader is still to mark did run out.
Reading ==
    /\ DOMAIN view = Viewers
    /\ \A r \in Viewers : view[r] # Idle =>
         /\ view[r] \in View
         /\ view[r].expire \subseteq lapsed
         /\ Answered(view[r].answer)

NoticesInv ==
    /\ Board(notice, clock, lapsed, removed, made)
    /\ listed \in BOOLEAN /\ made \in Nat /\ clock \in 1..LastTick
    /\ lapsed \subseteq Notices /\ removed \subseteq Notices
    /\ Writing /\ Reading

LEMMA LapsedIs == \A row : Lapsed(row) <=> Out(row, clock)
  BY DEF Lapsed, Out

LEMMA ShownIs == \A row : Shown(row) <=> Visible(row, clock)
  BY Zenon DEF Shown, Visible, Lapsed, Out

LEMMA RoomIs ==
    ASSUME NEW n, NEW row, checkNoticeDisplayLimit(n, row)
    PROVE  Room(notice, n, row, clock)
  <1>1. {m \in Notices \ {n} : notice[m].mode = row.mode /\ Shown(notice[m])}
          = Beside(notice, clock, row.mode, n)
    BY ShownIs, Zenon DEF Beside
  <1> QED
    BY <1>1, ShownIs, Zenon DEF checkNoticeDisplayLimit, Room, Limited

(* What stays, stays as it was.                                            *)
LEMMA ReadingStays ==
    ASSUME Reading, view' = view, lapsed \subseteq lapsed'
    PROVE  Reading'
  BY DEF Reading

LEMMA WritingEnds ==
    ASSUME Writing, NEW c \in Editors, write' = [write EXCEPT ![c] = Idle]
    PROVE  Writing' /\ write'[c] = Idle
  <1>1. DOMAIN write' = Editors /\ write'[c] = Idle
    BY DEF Writing
  <1>2. \A d \in Editors : write'[d] # Idle => write'[d] = write[d]
    BY DEF Writing
  <1> QED
    BY <1>1, <1>2, Zenon DEF Writing

LEMMA StartKeeps ==
    ASSUME SupportersInv, NoticesInv, NEW c \in Editors, NEW u \in People, StartWrite(c, u)
    PROVE  NoticesInv'
  <1> DEFINE start == [by |-> u, tags |-> role[u]]
  <1>1. /\ start.by \in People
        /\ "moderator" \in start.tags => start.by \in Moderators
        /\ "arcade_owner" \in start.tags => start.by \in Managers
    BY DEF SupportersInv, Rightful
  <1>2. /\ write' = [write EXCEPT ![c] = start]
        /\ UNCHANGED <<notice, listed, view, made, lapsed, removed, clock>>
    BY Zenon DEF StartWrite
  <1> HIDE DEF start
  <1>3. DOMAIN write' = Editors /\ write'[c] = start /\ \A d \in Editors : d # c => write'[d] = write[d]
    BY <1>2 DEF NoticesInv, Writing
  <1>4. Writing'
    BY <1>1, <1>3, Zenon DEF NoticesInv, Writing
  <1> QED
    BY <1>2, <1>4, Zenon DEF NoticesInv, Reading

LEMMA DropKeeps ==
    ASSUME NoticesInv, NEW c \in Editors, DropWrite(c)
    PROVE  NoticesInv'
  <1>1. Writing'
    BY WritingEnds, Zenon DEF DropWrite, NoticesInv
  <1> QED
    BY <1>1, Zenon DEF DropWrite, NoticesInv, Reading

(* A row is saved.                                                         *)
LEMMA SaveKeeps ==
    ASSUME NoticesInv, NEW c \in Editors, NEW n \in Notices, NEW row \in Notice,
           row.state \in {"kept", "deleted"}, checkNoticeDisplayLimit(n, row), Kept(n, row),
           row.state = "deleted" => notice[n].state = "deleted",
           \/ notice[n].state # "none" /\ row.created = notice[n].created /\ made' = made
           \/ row.created = made + 1 /\ made' = made + 1,
           write' = [write EXCEPT ![c] = Idle], UNCHANGED <<listed, view, removed, clock>>
    PROVE  NoticesInv'
  <1>1. notice' = [notice EXCEPT ![n] = row]
    BY Zenon DEF Kept
  <1>2. lapsed' = IF row.state = "kept" /\ row.until <= clock THEN lapsed \cup {n} ELSE lapsed
    BY Zenon DEF Kept
  <1>3. /\ lapsed \subseteq lapsed' /\ lapsed' \subseteq Notices
        /\ lapsed' \subseteq lapsed \cup {n}
        /\ row.state = "kept" /\ row.until <= clock => n \in lapsed'
    <2>1. lapsed \subseteq Notices
      BY Zenon DEF NoticesInv
    <2> DEFINE late == row.state = "kept" /\ row.until <= clock
    <2>2. lapsed' = IF late THEN lapsed \cup {n} ELSE lapsed
      BY <1>2
    <2> HIDE DEF late
    <2>3. lapsed \subseteq lapsed' /\ lapsed' \subseteq Notices
          /\ lapsed' \subseteq lapsed \cup {n} /\ (late => n \in lapsed')
      BY <2>1, <2>2
    <2> QED
      BY <2>3 DEF late
  <1>4. row.state # "none" /\ Room(notice, n, row, clock)
    BY RoomIs
  <1>5. row.state = "deleted" => n \in lapsed' \cup removed
    BY <1>3, Zenon DEF NoticesInv, Board, Reasons
  <1>6. made \in Nat /\ made' \in Nat
    BY DEF NoticesInv
  <1>7. Board(notice, clock, lapsed, removed, made)
    BY Zenon DEF NoticesInv
  <1>8. Board(notice', clock, lapsed', removed, made')
    <2>1. removed \subseteq removed
      OBVIOUS
    <2>2. Saves(notice, clock, lapsed, removed, made, notice', lapsed', removed, made')
      BY <1>1, <1>3, <1>4, <1>5, <2>1, Zenon DEF Saves
    <2> QED
      BY <1>6, <1>7, <2>2, RowChanges
  <1>9. Writing'
    BY WritingEnds, Zenon DEF NoticesInv
  <1>10. Reading'
    BY <1>3, ReadingStays, Zenon DEF NoticesInv
  <1> QED
    BY <1>3, <1>6, <1>8, <1>9, <1>10, Zenon DEF NoticesInv

LEMMA CreateKeeps ==
    ASSUME NoticesInv, NEW c \in Editors, NEW n \in Notices, NEW mode \in Modes,
           NEW until \in Times, NEW priority \in Priorities,
           CreateArcadeNotice(c, n, mode, until, priority)
    PROVE  NoticesInv'
  <1> DEFINE row == applyNoticeFields([NoNotice EXCEPT !.state = "kept", !.by = write[c].by,
                                                       !.created = made + 1],
                                      mode, until, priority)
  <1>1. write[c].by \in People /\ made + 1 \in Nat
    BY DEF NoticesInv, Writing, CreateArcadeNotice
  <1>2. row = [state |-> "kept", mode |-> mode, by |-> write[c].by, until |-> until,
               priority |-> priority, created |-> made + 1]
    <2> DEFINE x == [NoNotice EXCEPT !.state = "kept", !.by = write[c].by, !.created = made + 1]
    <2>1. x = [state |-> "kept", mode |-> "normal", by |-> write[c].by, until |-> Never,
               priority |-> Min(Priorities), created |-> made + 1]
      <3> DEFINE y == [NoNotice EXCEPT !.state = "kept"]
                 z == [y EXCEPT !.by = write[c].by]
                 p == Min(Priorities)
      <3>1. y = [state |-> "kept", mode |-> "normal", by |-> Nobody, until |-> Never,
                 priority |-> p, created |-> 0]
        <4> HIDE DEF p
        <4> QED
          BY DEF NoNotice, p
      <3>2. z = [state |-> "kept", mode |-> "normal", by |-> write[c].by, until |-> Never,
                 priority |-> p, created |-> 0]
        <4> HIDE DEF y, p
        <4> QED
          BY <3>1
      <3>3. x = [z EXCEPT !.created = made + 1]
        OBVIOUS
      <3> HIDE DEF x, y, z
      <3> QED
        BY <3>2, <3>3
    <2>2. row = applyNoticeFields(x, mode, until, priority)
      OBVIOUS
    <2> HIDE DEF row, x
    <2> QED
      BY <2>1, <2>2 DEF applyNoticeFields
  <1>3. row \in Notice /\ row.state = "kept" /\ row.created = made + 1
    BY <1>1, <1>2 DEF Notice
  <1>4. /\ checkNoticeDisplayLimit(n, row) /\ Kept(n, row) /\ made' = made + 1
        /\ write' = [write EXCEPT ![c] = Idle] /\ UNCHANGED <<listed, view, removed, clock>>
    BY Zenon DEF CreateArcadeNotice
  <1> HIDE DEF row
  <1> QED
    BY <1>3, <1>4, SaveKeeps

LEMMA UpdateKeeps ==
    ASSUME NoticesInv, NEW c \in Editors, NEW n \in Notices, NEW mode \in Modes,
           NEW until \in Times, NEW priority \in Priorities,
           UpdateArcadeNotice(c, n, mode, until, priority)
    PROVE  NoticesInv'
  <1> DEFINE row == applyNoticeFields(notice[n], mode, until, priority)
  <1>1. notice[n] \in Notice /\ notice[n].state # "none"
    BY DEF NoticesInv, Board, UpdateArcadeNotice
  <1>2. /\ row \in Notice /\ row.state \in {"kept", "deleted"}
        /\ row.state = notice[n].state /\ row.created = notice[n].created
    BY <1>1 DEF Notice, applyNoticeFields
  <1>3. /\ checkNoticeDisplayLimit(n, row) /\ Kept(n, row) /\ made' = made
        /\ write' = [write EXCEPT ![c] = Idle] /\ UNCHANGED <<listed, view, removed, clock>>
    BY Zenon DEF UpdateArcadeNotice
  <1> HIDE DEF row
  <1> QED
    BY <1>1, <1>2, <1>3, SaveKeeps

(* A row is marked deleted.                                                *)
LEMMA MarkKeeps ==
    ASSUME NoticesInv, NEW n \in Notices, notice[n].state # "none", NEW R, removed \subseteq R,
           n \in lapsed \cup R, notice' = [notice EXCEPT ![n].state = "deleted"]
    PROVE  Board(notice', clock, lapsed, R, made)
  <1> DEFINE row == [notice[n] EXCEPT !.state = "deleted"]
  <1>1. notice[n] \in Notice /\ notice \in [Notices -> Notice]
    BY DEF NoticesInv, Board
  <1>2. row \in Notice /\ row.state = "deleted" /\ row.created = notice[n].created
    BY <1>1 DEF Notice
  <1>3. notice' = [notice EXCEPT ![n] = row]
    BY <1>1
  <1> HIDE DEF row
  <1>4. row.state # "none" /\ Room(notice, n, row, clock)
    BY <1>2 DEF Room, Visible
  <1>5. /\ row.state = "kept" /\ row.until <= clock => n \in lapsed
        /\ lapsed \subseteq lapsed /\ lapsed \subseteq lapsed \cup {n}
    BY <1>2
  <1>6. made \in Nat /\ Board(notice, clock, lapsed, removed, made)
    BY Zenon DEF NoticesInv
  <1>7. Saves(notice, clock, lapsed, removed, made, notice', lapsed, R, made)
    BY <1>2, <1>3, <1>4, <1>5, Zenon DEF Saves
  <1> QED
    BY <1>6, <1>7, RowChanges

LEMMA DeleteKeeps ==
    ASSUME NoticesInv, NEW c \in Editors, NEW n \in Notices, DeleteArcadeNotice(c, n)
    PROVE  NoticesInv'
  <1>1. /\ notice[n].state # "none" /\ notice' = [notice EXCEPT ![n].state = "deleted"]
        /\ removed' = removed \cup {n} /\ write' = [write EXCEPT ![c] = Idle]
        /\ UNCHANGED <<listed, view, made, lapsed, clock>>
    BY Zenon DEF DeleteArcadeNotice
  <1>2. removed \subseteq removed' /\ n \in lapsed \cup removed' /\ removed' \subseteq Notices
    BY <1>1 DEF NoticesInv
  <1>3. Board(notice', clock, lapsed, removed', made)
    BY <1>1, <1>2, MarkKeeps
  <1>4. Writing'
    BY <1>1, WritingEnds, Zenon DEF NoticesInv
  <1> QED
    BY <1>1, <1>2, <1>3, <1>4, Zenon DEF NoticesInv, Reading-------------------------------------------------------------------------------
(* The answer                                                              *)

LEMMA RankIs ==
    ASSUME NEW mode \in Modes
    PROVE  /\ Rank(mode) \in 0..2
           /\ mode = "required" <=> Rank(mode) = 0
           /\ mode = "pinned" <=> Rank(mode) = 1
           /\ mode = "normal" <=> Rank(mode) = 2
  BY DEF Rank, Modes

\* The order of two rows, by numbers only.
Before(r, p, c, s, q, d) == \/ r < s
                            \/ r = s /\ (\/ r = 1 /\ p < q
                                         \/ (r = 1 => p = q) /\ c > d)

LEMMA BeforeIs ==
    ASSUME NEW a \in Notice, NEW b \in Notice
    PROVE  ListedBefore(a, b) <=>
             Before(Rank(a.mode), a.priority, a.created, Rank(b.mode), b.priority, b.created)
  <1>1. a.mode = "pinned" <=> Rank(a.mode) = 1
    <2>1. a.mode \in Modes
      BY DEF Notice
    <2> QED
      BY <2>1, RankIs
  <1> QED
    BY <1>1, Zenon DEF ListedBefore, Before

LEMMA NoticeNumbers ==
    ASSUME NEW a \in Notice
    PROVE  /\ Rank(a.mode) \in 0..2 /\ a.priority \in Int /\ a.created \in Nat
           /\ a.mode = "required" <=> Rank(a.mode) = 0
           /\ a.mode = "pinned" <=> Rank(a.mode) = 1
           /\ a.mode = "normal" <=> Rank(a.mode) = 2
  <1>1. a.mode \in Modes /\ a.priority \in Priorities /\ a.created \in Nat
    BY DEF Notice
  <1> QED
    BY <1>1, RankIs

LEMMA BeforeOrders ==
    ASSUME NEW r \in 0..2, NEW p \in Int, NEW c \in Nat,
           NEW s \in 0..2, NEW q \in Int, NEW d \in Nat
    PROVE  /\ ~Before(r, p, c, r, p, c)
           /\ Before(r, p, c, s, q, d) => r <= s /\ (r = 1 /\ s = 1 => p <= q)
           /\ c # d => Before(r, p, c, s, q, d) \/ Before(s, q, d, r, p, c)
  BY ONLY r \in 0..2, p \in Int, c \in Nat, s \in 0..2, q \in Int, d \in Nat DEF Before

LEMMA BeforeChains ==
    ASSUME NEW r \in 0..2, NEW p \in Int, NEW c \in Nat,
           NEW s \in 0..2, NEW q \in Int, NEW d \in Nat,
           NEW x \in 0..2, NEW y \in Int, NEW z \in Nat,
           Before(r, p, c, s, q, d), Before(s, q, d, x, y, z)
    PROVE  Before(r, p, c, x, y, z)
  BY ONLY r \in 0..2, p \in Int, c \in Nat, s \in 0..2, q \in Int, d \in Nat,
     x \in 0..2, y \in Int, z \in Nat,
     Before(r, p, c, s, q, d), Before(s, q, d, x, y, z) DEF Before

\* What is needed of two rows, and of three.
LEMMA TwoRows ==
    ASSUME NEW a \in Notice, NEW b \in Notice
    PROVE  /\ ~ListedBefore(a, a)
           /\ ListedBefore(a, b) => Rank(a.mode) <= Rank(b.mode)
           /\ ListedBefore(a, b) /\ Rank(a.mode) = 1 /\ Rank(b.mode) = 1
                => a.priority <= b.priority
           /\ a.created # b.created => ListedBefore(a, b) \/ ListedBefore(b, a)
  <1> DEFINE r == Rank(a.mode)
             p == a.priority
             c == a.created
             s == Rank(b.mode)
             q == b.priority
             d == b.created
  <1>1. r \in 0..2 /\ p \in Int /\ c \in Nat /\ s \in 0..2 /\ q \in Int /\ d \in Nat
    BY NoticeNumbers
  <1>2. /\ ListedBefore(a, a) <=> Before(r, p, c, r, p, c)
        /\ ListedBefore(a, b) <=> Before(r, p, c, s, q, d)
        /\ ListedBefore(b, a) <=> Before(s, q, d, r, p, c)
    BY BeforeIs
  <1>3. /\ ~ListedBefore(a, a)
        /\ ListedBefore(a, b) => r <= s /\ (r = 1 /\ s = 1 => p <= q)
        /\ c # d => ListedBefore(a, b) \/ ListedBefore(b, a)
    <2> HIDE DEF r, p, c, s, q, d
    <2> QED
      BY <1>1, <1>2, BeforeOrders
  <1> QED
    BY <1>3

LEMMA ThreeRows ==
    ASSUME NEW a \in Notice, NEW b \in Notice, NEW c \in Notice,
           ListedBefore(a, b), ListedBefore(b, c)
    PROVE  ListedBefore(a, c)
  <1>1. /\ Before(Rank(a.mode), a.priority, a.created, Rank(b.mode), b.priority, b.created)
        /\ Before(Rank(b.mode), b.priority, b.created, Rank(c.mode), c.priority, c.created)
    BY BeforeIs
  <1>2. /\ Rank(a.mode) \in 0..2 /\ a.priority \in Int /\ a.created \in Nat
        /\ Rank(b.mode) \in 0..2 /\ b.priority \in Int /\ b.created \in Nat
        /\ Rank(c.mode) \in 0..2 /\ c.priority \in Int /\ c.created \in Nat
    BY NoticeNumbers
  <1>3. Before(Rank(a.mode), a.priority, a.created, Rank(c.mode), c.priority, c.created)
    BY ONLY <1>1, <1>2, BeforeChains
  <1> QED
    BY <1>3, BeforeIs

LEMMA RowsRanked ==
    ASSUME NEW S, S \subseteq Notice, \A a, b \in S : a # b => a.created # b.created
    PROVE  Ranked(S)
  <1>1. ASSUME NEW a \in S, NEW b \in S, a # b PROVE ListedBefore(a, b) \/ ListedBefore(b, a)
    BY <1>1, TwoRows
  <1>2. ASSUME NEW a \in S PROVE ~ListedBefore(a, a)
    BY TwoRows
  <1>3. ASSUME NEW a \in S, NEW b \in S, NEW c \in S, ListedBefore(a, b), ListedBefore(b, c)
        PROVE  ListedBefore(a, c)
    <2>1. a \in Notice /\ b \in Notice /\ c \in Notice
      OBVIOUS
    <2> QED
      BY ONLY <1>3, <2>1, ThreeRows
  <1> QED
    BY <1>1, <1>2, <1>3, Zenon DEF Ranked

LEMMA OneAtMost ==
    ASSUME NEW S, IsFiniteSet(S), Cardinality(S) <= 1, NEW x \in S, NEW y \in S
    PROVE  x = y
  <1> SUFFICES ASSUME x # y PROVE FALSE
    OBVIOUS
  <1>1. Cardinality({x}) = 1 /\ IsFiniteSet({x})
    BY FS_Singleton
  <1>2. Cardinality({x} \cup {y}) = 2 /\ IsFiniteSet({x} \cup {y})
    <2> DEFINE A == {x}
    <2>1. y \notin A /\ IsFiniteSet(A) /\ Cardinality(A) = 1
      BY <1>1
    <2> HIDE DEF A
    <2>2. IsFiniteSet(A \cup {y}) /\ Cardinality(A \cup {y}) = Cardinality(A) + 1
      BY <2>1, FS_AddElement
    <2>3. Cardinality(A \cup {y}) = 2
      BY <2>1, <2>2
    <2> QED
      BY <2>2, <2>3 DEF A
  <1>3. {x} \cup {y} \subseteq S
    OBVIOUS
  <1>4. Cardinality({x} \cup {y}) <= Cardinality(S) /\ Cardinality(S) \in Nat
    BY <1>3, FS_Subset, FS_CardinalityType
  <1> QED
    BY <1>2, <1>4

(* Rows in order, of which one at most is required.                        *)
LEMMA ListingAnswers ==
    ASSUME NEW S, IsFiniteSet(S), S \subseteq Notice, Ranked(S),
           \A a, b \in S : a.mode = "required" /\ b.mode = "required" => a = b,
           NEW rows, Listing(rows, S)
    PROVE  rows \in Seq(Notice) /\ Answered(rows)
  <1> DEFINE k == Cardinality(S)
  <1>1. k \in Nat
    BY FS_CardinalityType
  <1>2. rows \in [1..k -> S] /\ \A i, j \in 1..k : i < j => ListedBefore(rows[i], rows[j])
    BY DEF Listing
  <1> HIDE DEF k
  <1>3. rows \in Seq(Notice)
    BY <1>1, <1>2
  <1>4. ASSUME NEW i \in DOMAIN rows, NEW j \in DOMAIN rows, i < j
        PROVE  /\ rows[j].mode # "required"
               /\ rows[i].mode = "normal" => rows[j].mode = "normal"
               /\ rows[i].mode = "pinned" /\ rows[j].mode = "pinned" =>
                    rows[i].priority <= rows[j].priority
    <2> DEFINE a == rows[i]
               b == rows[j]
    <2>1. a \in S /\ b \in S /\ ListedBefore(a, b)
      BY <1>2, <1>4
    <2> HIDE DEF a, b
    <2>2. a \in Notice /\ b \in Notice /\ a # b
      BY <2>1 DEF Ranked
    <2>3. /\ Rank(a.mode) \in 0..2 /\ Rank(b.mode) \in 0..2
          /\ a.priority \in Int /\ b.priority \in Int
          /\ Rank(a.mode) <= Rank(b.mode)
          /\ Rank(a.mode) = 1 /\ Rank(b.mode) = 1 => a.priority <= b.priority
      <3>1. /\ Rank(a.mode) <= Rank(b.mode)
            /\ Rank(a.mode) = 1 /\ Rank(b.mode) = 1 => a.priority <= b.priority
        BY ONLY <2>1, <2>2, TwoRows
      <3>2. /\ Rank(a.mode) \in 0..2 /\ Rank(b.mode) \in 0..2
            /\ a.priority \in Int /\ b.priority \in Int
        BY ONLY <2>2, NoticeNumbers
      <3> QED
        BY ONLY <3>1, <3>2
    <2>4. b.mode # "required"
      <3> SUFFICES ASSUME b.mode = "required" PROVE FALSE
        OBVIOUS
      <3>1. Rank(b.mode) = 0
        BY <2>2, NoticeNumbers
      <3>2. Rank(a.mode) = 0
        BY <2>3, <3>1
      <3>3. a.mode = "required"
        BY <2>2, <3>2, NoticeNumbers
      <3> QED
        BY <2>1, <2>2, <3>3
    <2>5. a.mode = "normal" => b.mode = "normal"
      <3> SUFFICES ASSUME a.mode = "normal" PROVE b.mode = "normal"
        OBVIOUS
      <3>1. Rank(a.mode) = 2
        BY <2>2, NoticeNumbers
      <3>2. Rank(b.mode) = 2
        BY <2>3, <3>1
      <3> QED
        BY <2>2, <3>2, NoticeNumbers
    <2>6. a.mode = "pinned" /\ b.mode = "pinned" => a.priority <= b.priority
      BY <2>2, <2>3, NoticeNumbers
    <2> QED
      BY <2>4, <2>5, <2>6 DEF a, b
  <1>5. Answered(rows)
    BY <1>4, Zenon DEF Answered
  <1> QED
    BY <1>3, <1>5

LEMMA ReadKeeps ==
    ASSUME NoticesInv, NEW r \in Viewers, ReadNotices(r)
    PROVE  NoticesInv'
  <1> DEFINE out  == {n \in Notices : notice[n].state = "kept" /\ Lapsed(notice[n])}
             seen == {m \in Notices : Shown(notice[m])}
             S    == {notice[n] : n \in seen}
             all  == InOrder(S)
             got  == [expire |-> out, answer |-> all]
  <1>1. notice \in [Notices -> Notice] /\ Fits(notice, clock) /\ Dated(notice, clock, lapsed)
        /\ Aged(notice, made)
    BY Zenon DEF NoticesInv, Board
  <1>2. out \subseteq lapsed /\ out \subseteq Notices
    BY <1>1, Zenon DEF Lapsed, Dated
  <1>3. S \subseteq Notice
    BY <1>1
  <1>4. IsFiniteSet(S)
    <2> DEFINE f == [n \in seen |-> notice[n]]
    <2>1. seen \subseteq Notices
      OBVIOUS
    <2>2. IsFiniteSet(seen)
      <3> HIDE DEF seen
      <3> QED
        BY <2>1, FS_Subset
    <2>3. f \in Surjection(seen, S)
      BY Zenon DEF Surjection
    <2> HIDE DEF seen, S, f
    <2> QED
      BY <2>2, <2>3, FS_Surjection
  <1>5. ASSUME NEW a \in S, NEW b \in S
        PROVE  /\ a # b => a.created # b.created
               /\ a.mode = "required" /\ b.mode = "required" => a = b
    <2>1. PICK n \in Notices : a = notice[n] /\ Shown(notice[n])
      OBVIOUS
    <2>2. PICK k \in Notices : b = notice[k] /\ Shown(notice[k])
      OBVIOUS
    <2> HIDE DEF S, seen
    <2>3. a # b => a.created # b.created
      BY <1>1, <2>1, <2>2, Zenon DEF Aged, Shown
    <2>4. ASSUME a.mode = "required", b.mode = "required" PROVE a = b
      <3> DEFINE B == On(notice, clock, "required")
      <3>1. n \in B /\ k \in B /\ B \subseteq Notices
        BY <2>1, <2>2, <2>4, ShownIs, Zenon DEF On
      <3>2. Cardinality(B) <= 1
        <4>1. Cardinality(B) <= Slots("required") /\ Slots("required") = 1
          BY <1>1, Zenon DEF Fits, Limited, Slots
        <4> QED
          BY <4>1
      <3> HIDE DEF B
      <3>3. IsFiniteSet(B)
        BY <3>1, FS_Subset
      <3>4. n = k
        BY <3>1, <3>2, <3>3, OneAtMost
      <3> QED
        BY <2>1, <2>2, <3>4, Zenon
    <2> QED
      BY <2>3, <2>4
  <1>6. all \in Seq(Notice) /\ Answered(all)
    <2> HIDE DEF S
    <2>1. Ranked(S)
      BY <1>3, <1>5, RowsRanked
    <2>2. Listing(all, S)
      BY <1>4, <2>1, InOrderIs
    <2> HIDE DEF all
    <2> QED
      BY <1>3, <1>4, <1>5, <2>1, <2>2, ListingAnswers
  <1>7. view' = [view EXCEPT ![r] = got]
        /\ UNCHANGED <<notice, listed, write, made, lapsed, removed, clock>>
    BY Zenon DEF ReadNotices
  <1> HIDE DEF out, all
  <1>8. got \in View /\ got.expire = out /\ got.answer = all
    BY <1>2, <1>6 DEF View
  <1> HIDE DEF got
  <1>9. DOMAIN view' = Viewers /\ view'[r] = got /\ \A q \in Viewers : q # r => view'[q] = view[q]
    BY <1>7 DEF NoticesInv, Reading
  <1>10. Reading'
    <2>1. ASSUME NEW q \in Viewers, view'[q] # Idle
          PROVE  view'[q] \in View /\ view'[q].expire \subseteq lapsed' /\ Answered(view'[q].answer)
      <3>1. CASE q = r
        BY <1>2, <1>6, <1>7, <1>8, <1>9, <3>1, Zenon
      <3>2. CASE q # r
        BY <1>7, <1>9, <2>1, <3>2, Zenon DEF NoticesInv, Reading
      <3> QED
        BY <3>1, <3>2
    <2> QED
      BY <1>9, <2>1, Zenon DEF Reading
  <1> QED
    BY <1>7, <1>10, Zenon DEF NoticesInv, Writing

LEMMA ExpireKeeps ==
    ASSUME NoticesInv, NEW r \in Viewers, NEW n \in Notices, ExpireNotice(r, n)
    PROVE  NoticesInv' /\ view' # view
  <1> DEFINE rest == [view[r] EXCEPT !.expire = @ \ {n}]
  <1>1. /\ view[r] # Idle /\ n \in view[r].expire
        /\ notice' = [notice EXCEPT ![n].state = "deleted"]
        /\ view' = [view EXCEPT ![r].expire = @ \ {n}]
        /\ UNCHANGED <<listed, write, made, lapsed, removed, clock>>
    BY Zenon DEF ExpireNotice
  <1>2. /\ view[r] \in View /\ view[r].expire \subseteq lapsed
        /\ Answered(view[r].answer) /\ DOMAIN view = Viewers
    BY <1>1, Zenon DEF NoticesInv, Reading
  <1>3. /\ rest \in View /\ rest.expire = view[r].expire \ {n}
        /\ rest.answer = view[r].answer
    BY <1>2 DEF View
  <1>4. view' = [view EXCEPT ![r] = rest]
    BY <1>1
  <1> HIDE DEF rest
  <1>5. DOMAIN view' = Viewers /\ view'[r] = rest /\ \A q \in Viewers : q # r => view'[q] = view[q]
    BY <1>2, <1>4
  <1>6. Reading'
    <2>1. rest.expire \subseteq lapsed
      BY <1>2, <1>3
    <2>2. ASSUME NEW q \in Viewers, view'[q] # Idle
          PROVE  view'[q] \in View /\ view'[q].expire \subseteq lapsed' /\ Answered(view'[q].answer)
      <3>1. CASE q = r
        BY <1>1, <1>2, <1>3, <1>5, <2>1, <3>1, Zenon
      <3>2. CASE q # r
        BY <1>1, <1>5, <2>2, <3>2, Zenon DEF NoticesInv, Reading
      <3> QED
        BY <3>1, <3>2
    <2> QED
      BY <1>5, <2>2, Zenon DEF Reading
  <1>7. n \in lapsed /\ notice[n].state # "none"
    <2>1. n \in lapsed
      BY <1>1, <1>2
    <2> QED
      BY <2>1, Zenon DEF NoticesInv, Board, Dated
  <1>8. Board(notice', clock, lapsed, removed, made)
    <2>1. removed \subseteq removed /\ n \in lapsed \cup removed
      BY <1>7
    <2> QED
      BY <1>1, <1>7, <2>1, MarkKeeps
  <1>9. view' # view
    BY <1>1, <1>3, <1>5
  <1> QED
    BY <1>1, <1>6, <1>8, <1>9, Zenon DEF NoticesInv, Writing

LEMMA ListKeeps ==
    ASSUME NoticesInv, NEW r \in Viewers, ListArcadeNotice(r)
    PROVE  NoticesInv'
  <1>1. view' = [view EXCEPT ![r] = Idle]
        /\ UNCHANGED <<notice, listed, write, made, lapsed, removed, clock>>
    BY Zenon DEF ListArcadeNotice
  <1>2. DOMAIN view' = Viewers /\ \A q \in Viewers : view'[q] # Idle => view'[q] = view[q]
    BY <1>1 DEF NoticesInv, Reading
  <1>3. Reading'
    BY <1>1, <1>2, Zenon DEF NoticesInv, Reading
  <1> QED
    BY <1>1, <1>3, Zenon DEF NoticesInv, Writing

LEMMA RelistKeeps == ASSUME NoticesInv, Relist PROVE NoticesInv'
  <1>1. listed' \in BOOLEAN
    BY DEF NoticesInv, Relist
  <1> QED
    BY <1>1, Zenon DEF NoticesInv, Relist, Writing, Reading

LEMMA TickKeeps == ASSUME NoticesInv, Tick PROVE NoticesInv'
  <1>1. /\ clock < LastTick /\ clock' = clock + 1
        /\ lapsed' = lapsed \cup {n \in Notices : notice[n].state = "kept"
                                                  /\ notice[n].until <= clock'}
        /\ UNCHANGED <<notice, listed, write, view, made, removed>>
    BY Zenon DEF Tick
  <1>2. clock \in Nat /\ clock' \in 1..LastTick
    BY <1>1 DEF NoticesInv
  <1>3. lapsed \subseteq lapsed' /\ lapsed' \subseteq Notices
    BY <1>1, Zenon DEF NoticesInv
  <1>4. Board(notice, clock, lapsed, removed, made)
    BY Zenon DEF NoticesInv
  <1>5. \A n \in Notices : notice[n].until \in Nat
    BY <1>4 DEF Board, Notice, Times
  <1>6. \A n \in Notices : Visible(notice[n], clock') => Visible(notice[n], clock)
    <2>1. \A n \in Notices : Out(notice[n], clock) => Out(notice[n], clock')
      BY <1>1, <1>2, <1>5 DEF Out
    <2> QED
      BY <2>1, Zenon DEF Visible
  <1>7. Fits(notice, clock')
    <2>1. ASSUME NEW mode \in Limited
          PROVE  Cardinality(On(notice, clock', mode)) <= Slots(mode)
      <3>1. On(notice, clock', mode) \subseteq On(notice, clock, mode)
        BY <1>6, Zenon DEF On
      <3>2. On(notice, clock, mode) \subseteq Notices
        BY Zenon DEF On
      <3>3. Cardinality(On(notice, clock, mode)) <= Slots(mode)
        BY <1>4, Zenon DEF Board, Fits
      <3> QED
        BY <3>1, <3>2, <3>3, SlotsType, Fewer
    <2> QED
      BY <2>1, Zenon DEF Fits
  <1>8. Dated(notice, clock', lapsed') /\ Reasons(notice, lapsed', removed)
    BY <1>1, <1>3, <1>4, Zenon DEF Board, Dated, Reasons
  <1>9. Board(notice, clock', lapsed', removed, made)
    BY <1>4, <1>7, <1>8, Zenon DEF Board
  <1>10. Reading'
    BY <1>1, <1>3, ReadingStays, Zenon DEF NoticesInv
  <1> QED
    BY <1>1, <1>2, <1>3, <1>9, <1>10, Zenon DEF NoticesInv, Writing

LEMMA NoticesKept ==
    ASSUME SupportersInv, NoticesInv, NoticesNext
    PROVE  NoticesInv'
  BY StartKeeps, DropKeeps, CreateKeeps, UpdateKeeps, DeleteKeeps, ReadKeeps, ListKeeps,
     ExpireKeeps, RelistKeeps, TickKeeps, Zenon DEF NoticesNext

LEMMA NoticesBegin == NoticesInit => NoticesInv
  <1> SUFFICES ASSUME NoticesInit PROVE NoticesInv
    OBVIOUS
  <1>1. PICK old \in SUBSET Notices :
          /\ Cardinality(old) <= 1
          /\ notice = [n \in Notices |->
               IF n \in old THEN [NoNotice EXCEPT !.state = "kept"] ELSE NoNotice]
    BY Zenon DEF NoticesInit
  <1>2. /\ listed = TRUE /\ write = [c \in Editors |-> Idle] /\ view = [r \in Viewers |-> Idle]
        /\ made = 0 /\ lapsed = {} /\ removed = {} /\ clock = 1
    BY Zenon DEF NoticesInit
  <1> DEFINE x == [NoNotice EXCEPT !.state = "kept"]
  <1>3. NoNotice \in Notice /\ x \in Notice
    <2>1. Min(Priorities) \in Priorities
      OBVIOUS
    <2>2. NoNotice \in Notice
      BY <2>1 DEF NoNotice, Notice, Modes, Times
    <2> QED
      BY <2>2 DEF Notice
  <1>4. /\ NoNotice.state = "none" /\ x.state = "kept"
        /\ NoNotice.created = 0 /\ x.created = 0
        /\ NoNotice.mode = "normal" /\ x.mode = "normal"
        /\ NoNotice.until = Never /\ x.until = Never
    BY DEF NoNotice
  <1>5. notice = [n \in Notices |-> IF n \in old THEN x ELSE NoNotice]
    BY <1>1
  <1> HIDE DEF x
  <1>6. /\ notice \in [Notices -> Notice]
        /\ \A n \in Notices : notice[n] = IF n \in old THEN x ELSE NoNotice
    BY <1>3, <1>5
  <1>7. \A n \in Notices : /\ notice[n].created = 0 /\ notice[n].mode = "normal"
                           /\ notice[n].until = Never /\ notice[n].state \in {"none", "kept"}
                           /\ notice[n].state # "none" => n \in old
    BY <1>4, <1>6
  <1>8. Fits(notice, clock)
    <2>1. ASSUME NEW mode \in Limited PROVE Cardinality(On(notice, clock, mode)) <= Slots(mode)
      <3>1. On(notice, clock, mode) = {}
        BY <1>7 DEF On, Limited
      <3>2. Cardinality(On(notice, clock, mode)) = 0
        BY <3>1, FS_EmptySet
      <3> QED
        BY <3>2, SlotsType
    <2> QED
      BY <2>1, Zenon DEF Fits
  <1>9. Dated(notice, clock, lapsed)
    <2>1. ~ (Never <= clock)
      BY <1>2
    <2>2. \A n \in Notices : n \notin lapsed
      BY <1>2
    <2> QED
      BY <1>7, <2>1, <2>2, Zenon DEF Dated
  <1>10. Reasons(notice, lapsed, removed)
    BY <1>7 DEF Reasons
  <1>11. Aged(notice, made)
    <2>1. IsFiniteSet(old)
      BY FS_Subset
    <2>2. \A n, k \in old : n = k
      BY <1>1, <2>1, OneAtMost
    <2>3. \A n \in Notices : notice[n].created <= made
      BY <1>2, <1>7
    <2> QED
      BY <1>7, <2>2, <2>3, Zenon DEF Aged
  <1>12. Writing /\ Reading
    BY <1>2 DEF Writing, Reading
  <1>13. Board(notice, clock, lapsed, removed, made)
    BY <1>6, <1>8, <1>9, <1>10, <1>11, Zenon DEF Board
  <1>14. listed \in BOOLEAN /\ made \in Nat /\ clock \in 1..LastTick
         /\ lapsed \subseteq Notices /\ removed \subseteq Notices
    BY <1>2
  <1> QED
    BY <1>12, <1>13, <1>14, Zenon DEF NoticesInv

LEMMA NoticesHold ==
    ASSUME SupportersInv, NoticesInv
    PROVE  BoardTypeOK /\ SlotsHold /\ GoneForAReason
  <1>1. Board(notice, clock, lapsed, removed, made)
    BY Zenon DEF NoticesInv
  <1>2. BoardTypeOK
    <2>1. ASSUME NEW n \in Notices, NEW m \in Notices, n # m, notice[n].created = notice[m].created
          PROVE  notice[n].created = 0
      BY <1>1, <2>1, Zenon DEF Board, Aged
    <2>2. notice \in [Notices -> Notice] /\ listed \in BOOLEAN
          /\ lapsed \subseteq Notices /\ removed \subseteq Notices /\ clock \in 1..LastTick
      BY Zenon DEF NoticesInv, Board
    <2> QED
      BY <2>1, <2>2, SupportersHold, Zenon DEF BoardTypeOK
  <1>3. SlotsHold
    <2>1. ASSUME NEW mode \in {"required", "pinned"}
          PROVE  Cardinality({n \in Notices : notice[n].mode = mode /\ Shown(notice[n])})
                   <= Slots(mode)
      <3>1. {n \in Notices : notice[n].mode = mode /\ Shown(notice[n])} = On(notice, clock, mode)
        BY ShownIs, Zenon DEF On
      <3>2. Cardinality(On(notice, clock, mode)) <= Slots(mode)
        BY <1>1, Zenon DEF Board, Fits, Limited
      <3> QED
        BY <3>1, <3>2, Zenon
    <2>2. \A r \in Viewers : view[r] # Idle => Answered(view[r].answer)
      BY Zenon DEF NoticesInv, Reading
    <2> QED
      BY <2>1, <2>2, Zenon DEF SlotsHold, Answered
  <1>4. GoneForAReason
    BY <1>1, Zenon DEF Board, Reasons, GoneForAReason
  <1> QED
    BY <1>2, <1>3, <1>4

LEMMA BoardStands == BoardSpec => [](SupportersInv /\ NoticesInv)
  <1>1. BoardInit => SupportersInv /\ NoticesInv
    BY SupportersBegin, NoticesBegin, Zenon DEF BoardInit
  <1>2. SupportersInv /\ NoticesInv /\ [BoardNext]_<<supporterVars, noticeVars>>
          => (SupportersInv /\ NoticesInv)'
    <2> SUFFICES ASSUME SupportersInv, NoticesInv, [BoardNext]_<<supporterVars, noticeVars>>
                 PROVE  SupportersInv' /\ NoticesInv'
      OBVIOUS
    <2>1. UNCHANGED supporterVars => SupportersInv'
      BY Zenon DEF supporterVars, SupportersInv, Rightful, Asked, Asking
    <2>2. UNCHANGED noticeVars => NoticesInv'
      BY Zenon DEF noticeVars, NoticesInv, Writing, Reading
    <2>3. CASE NoticesNext /\ UNCHANGED supporterVars
      BY <2>1, <2>3, NoticesKept
    <2>4. CASE SupportersNext /\ UNCHANGED noticeVars
      BY <2>2, <2>4, SupportersKept
    <2>5. CASE UNCHANGED <<supporterVars, noticeVars>>
      <3>1. UNCHANGED supporterVars /\ UNCHANGED noticeVars
        BY <2>5, Zenon
      <3> QED
        BY <2>1, <2>2, <3>1
    <2> QED
      BY <2>3, <2>4, <2>5, Zenon DEF BoardNext
  <1> QED
    BY <1>1, <1>2, PTL DEF BoardSpec

(* Who changes a row.                                                      *)
LEMMA TheirsChange ==
    ASSUME SupportersInv, NoticesInv, [BoardNext]_<<supporterVars, noticeVars>>,
           NEW n \in Notices, notice[n].state # "none", notice'[n] # notice[n], view' = view
    PROVE  \E c \in Editors :
             /\ write[c] # Idle /\ write'[c] = Idle
             /\ \/ write[c].by \in {notice[n].by} \cup Moderators
                \/ notice[n].by = Nobody /\ write[c].by \in Managers
  <1> DEFINE Theirs(c) ==
               /\ write[c] # Idle /\ write'[c] = Idle
               /\ \/ write[c].by \in {notice[n].by} \cup Moderators
                  \/ notice[n].by = Nobody /\ write[c].by \in Managers
  <1>1. notice \in [Notices -> Notice]
    BY Zenon DEF NoticesInv, Board
  <1>2. ASSUME NEW c \in Editors, write[c] # Idle, noticeMutationAccess(write[c], notice[n]),
               write' = [write EXCEPT ![c] = Idle]
        PROVE  Theirs(c)
    <2>1. Writing
      BY Zenon DEF NoticesInv
    <2>2. write'[c] = Idle
      BY <1>2, <2>1, WritingEnds
    <2>3. \/ "moderator" \in write[c].tags
          \/ notice[n].by = Nobody /\ "arcade_owner" \in write[c].tags
          \/ notice[n].by = write[c].by
      BY <1>2, Zenon DEF noticeMutationAccess
    <2>4. /\ "moderator" \in write[c].tags => write[c].by \in Moderators
          /\ "arcade_owner" \in write[c].tags => write[c].by \in Managers
      BY <1>2, <2>1, Zenon DEF Writing
    <2>5. \/ write[c].by \in {notice[n].by} \cup Moderators
          \/ notice[n].by = Nobody /\ write[c].by \in Managers
      BY <2>3, <2>4
    <2> QED
      BY <1>2, <2>2, <2>5
  <1>3. ASSUME NEW k \in Notices, NEW row, notice' = [notice EXCEPT ![k] = row] PROVE n = k
    BY <1>1, <1>3
  <1> HIDE DEF Theirs
  <1>4. ASSUME NEW c \in Editors, NEW k \in Notices, NEW mode \in Modes, NEW until \in Times,
               NEW priority \in Priorities, CreateArcadeNotice(c, k, mode, until, priority)
        PROVE  FALSE
    <2>1. notice[k].state = "none" /\ \E row : notice' = [notice EXCEPT ![k] = row]
      BY <1>4, Zenon DEF CreateArcadeNotice, Kept
    <2>2. n = k
      BY <1>3, <2>1
    <2> QED
      BY <2>1, <2>2
  <1>5. ASSUME NEW c \in Editors, NEW k \in Notices, NEW mode \in Modes, NEW until \in Times,
               NEW priority \in Priorities, UpdateArcadeNotice(c, k, mode, until, priority)
        PROVE  Theirs(c)
    <2>1. /\ write[c] # Idle /\ noticeMutationAccess(write[c], notice[k])
          /\ write' = [write EXCEPT ![c] = Idle] /\ \E row : notice' = [notice EXCEPT ![k] = row]
      BY <1>5, Zenon DEF UpdateArcadeNotice, Kept
    <2>2. n = k
      BY <1>3, <2>1
    <2> QED
      BY <1>2, <2>1, <2>2, Zenon
  <1>6. ASSUME NEW c \in Editors, NEW k \in Notices, DeleteArcadeNotice(c, k)
        PROVE  Theirs(c)
    <2>1. /\ write[c] # Idle /\ noticeMutationAccess(write[c], notice[k])
          /\ write' = [write EXCEPT ![c] = Idle] /\ notice' = [notice EXCEPT ![k].state = "deleted"]
      BY <1>6, Zenon DEF DeleteArcadeNotice
    <2>2. n = k
      BY <1>1, <2>1
    <2> QED
      BY <1>2, <2>1, <2>2, Zenon
  <1>7. NoticesNext
    BY Zenon DEF BoardNext, noticeVars
  <1>8. ASSUME NEW c \in Editors, NEW u \in People, StartWrite(c, u) PROVE FALSE
    BY <1>8, Zenon DEF StartWrite
  <1>9. ASSUME NEW c \in Editors, DropWrite(c) PROVE FALSE
    BY <1>9, Zenon DEF DropWrite
  <1>10. ASSUME NEW r \in Viewers, ReadNotices(r) \/ ListArcadeNotice(r) PROVE FALSE
    BY <1>10, Zenon DEF ReadNotices, ListArcadeNotice
  <1>11. ASSUME NEW r \in Viewers, NEW k \in Notices, ExpireNotice(r, k) PROVE FALSE
    BY <1>11, ExpireKeeps
  <1>12. ASSUME Relist \/ Tick PROVE FALSE
    BY <1>12, Zenon DEF Relist, Tick
  <1>13. \E c \in Editors : Theirs(c)
    BY <1>4, <1>5, <1>6, <1>7, <1>8, <1>9, <1>10, <1>11, <1>12, Zenon DEF NoticesNext
  <1> QED
    BY <1>13 DEF Theirs

(* A board and its supporters stand by what made them so, whatever roles,  *)
(* experience and notices did at once, and only authors and staff change a *)
(* notice by request (CreateArcadeNotice, UpdateArcadeNotice,              *)
(* DeleteArcadeNotice, ListArcadeNotice, ReviewSupporterRequest).          *)
THEOREM BoardsStand == BoardSpec => BoardsHold
  <1> DEFINE Good   == BoardTypeOK /\ SupportersEarnedIt /\ SlotsHold /\ GoneForAReason
             Theirs == \A n \in Notices :
                         notice[n].state # "none" /\ notice'[n] # notice[n] /\ view' = view =>
                           \E c \in Editors :
                             /\ write[c] # Idle /\ write'[c] = Idle
                             /\ \/ write[c].by \in {notice[n].by} \cup Moderators
                                \/ notice[n].by = Nobody /\ write[c].by \in Managers
  <1>1. SupportersInv /\ NoticesInv => Good
    BY SupportersHold, NoticesHold
  <1>2. SupportersInv /\ NoticesInv /\ [BoardNext]_<<supporterVars, noticeVars>> => Theirs
    BY TheirsChange
  <1> QED
    BY <1>1, <1>2, BoardStands, PTL DEF BoardSpec, BoardsHold, WrittenByTheirs

-------------------------------------------------------------------------------
(* Visits, check-ins and passports (Attendance), for any arcades, places,  *)
(* timezones, visitors and requests that satisfy its assumption.           *)

HIDE SupportersAssumption DEF SupportersAssumption
HIDE NoticesAssumption DEF NoticesAssumption
USE AttendanceAssumption DEF AttendanceAssumption

-------------------------------------------------------------------------------
(* Rows of visits, in any order, and what is counted of them.              *)

VisitRows(rows) == rows \in Seq(Visit) /\ \A i \in DOMAIN rows : Where[rows[i].arcade] \in Int

LEMMA YearIs == \A d \in Nat : YearOf(d) \in Nat
  <1> SUFFICES ASSUME NEW d \in Nat PROVE d \div YearDays \in Nat
    BY DEF YearOf
  <1>1. YearDays \in Nat /\ YearDays > 0
    OBVIOUS
  <1> QED
    BY <1>1, SMT

LEMMA RowsAre ==
    ASSUME NEW rows, VisitRows(rows)
    PROVE  /\ IsFiniteSet(DOMAIN rows) /\ DOMAIN rows \subseteq Nat \ {0}
           /\ \A i \in DOMAIN rows : 1..i \subseteq DOMAIN rows
           /\ \A i \in DOMAIN rows :
                /\ rows[i] \in Visit /\ rows[i].arcade \in Arcades /\ rows[i].day \in Nat
                /\ rows[i].at \in Nat /\ YearOf(rows[i].day) \in Nat /\ Where[rows[i].arcade] \in Int
           /\ \A S \in SUBSET (DOMAIN rows) :
                /\ IsFiniteSet(S) /\ IsFiniteSet(ArcadesIn(rows, S)) /\ IsFiniteSet(DaysIn(rows, S))
                /\ IsFiniteSet(CountriesIn(rows, S))
  <1> DEFINE D == DOMAIN rows
  <1>1. Len(rows) \in Nat /\ D = 1..Len(rows)
    BY DEF VisitRows
  <1>2. IsFiniteSet(D) /\ D \subseteq Nat \ {0} /\ \A i \in D : 1..i \subseteq D
    BY <1>1, FS_Interval
  <1>3. ASSUME NEW i \in D
        PROVE  /\ rows[i] \in Visit /\ rows[i].arcade \in Arcades /\ rows[i].day \in Nat
               /\ rows[i].at \in Nat /\ YearOf(rows[i].day) \in Nat /\ Where[rows[i].arcade] \in Int
    <2>1. rows[i] \in Visit /\ Where[rows[i].arcade] \in Int
      BY <1>1 DEF VisitRows
    <2>2. rows[i].arcade \in Arcades /\ rows[i].day \in Nat /\ rows[i].at \in Nat
      BY <2>1 DEF Visit
    <2> QED
      BY <2>1, <2>2, YearIs
  <1>4. ASSUME NEW S \in SUBSET D
        PROVE  /\ IsFiniteSet(S) /\ IsFiniteSet(ArcadesIn(rows, S)) /\ IsFiniteSet(DaysIn(rows, S))
               /\ IsFiniteSet(CountriesIn(rows, S))
    <2> DEFINE arcade == [i \in S |-> rows[i].arcade]
               day == [i \in S |-> rows[i].day]
    <2>1. IsFiniteSet(S)
      BY <1>2, FS_Subset
    <2>2. ArcadesIn(rows, S) = Image(arcade, S) /\ DaysIn(rows, S) = Image(day, S)
      BY DEF ArcadesIn, DaysIn, Image
    <2>3. CountriesIn(rows, S) = Image(HomeCountry, ArcadesIn(rows, S))
      BY DEF CountriesIn, Image
    <2> QED
      BY <2>1, <2>2, <2>3, ImageFinite
  <1> QED
    BY <1>2, <1>3, <1>4

LEMMA TotalIs == \A f : Total(f) = SumOver(f, DOMAIN f)
  BY DEF Total, SumOver

\* Every arcade is new once.
LEMMA NewOnce ==
    ASSUME NEW rows, VisitRows(rows)
    PROVE  Cardinality(NewIn(rows, DOMAIN rows)) = Cardinality(ArcadesIn(rows, DOMAIN rows))
  <1> DEFINE D == DOMAIN rows
             N == NewIn(rows, D)
             arcade == [i \in D |-> rows[i].arcade]
  <1>1. N \subseteq D /\ IsFiniteSet(N)
    <2>1. N \subseteq D
      BY DEF NewIn
    <2> QED
      BY <2>1, RowsAre
  <1>2. \A i \in D : i \in Nat /\ i # 0
    BY RowsAre
  <1>3. ASSUME NEW i \in D PROVE \E j \in N : arcade[j] = arcade[i]
    <2> DEFINE L == {-j : j \in {k \in D : arcade[k] = arcade[i]}}
    <2>1. \E m \in D : arcade[m] = arcade[i] /\ \A k \in D : arcade[k] = arcade[i] => m <= k
      <3> DEFINE E == {k \in D : arcade[k] = arcade[i]}
                 minus == [k \in E |-> -k]
      <3>1. IsFiniteSet(E) /\ i \in E /\ E \subseteq D
        <4>1. E \subseteq D /\ i \in E
          OBVIOUS
        <4> HIDE DEF E
        <4> QED
          BY <4>1, RowsAre
      <3> HIDE DEF E
      <3>2. IsFiniteSet(Image(minus, E)) /\ Image(minus, E) \subseteq Int /\ Image(minus, E) # {}
        <4>1. Image(minus, E) \subseteq Int /\ Image(minus, E) # {}
          BY <1>2, <3>1 DEF Image
        <4> QED
          BY <3>1, <4>1, ImageFinite
      <3>3. PICK x \in Image(minus, E) : \A y \in Image(minus, E) : y <= x
        BY <3>2, Maximum
      <3>4. PICK m \in E : x = -m
        BY <3>3 DEF Image
      <3>5. \A k \in E : -k <= -m
        BY <3>3, <3>4 DEF Image
      <3>6. \A k \in E : m <= k
        BY <1>2, <3>1, <3>5
      <3> QED
        BY <3>1, <3>4, <3>6 DEF E
    <2>2. PICK m \in D : arcade[m] = arcade[i] /\ \A k \in D : arcade[k] = arcade[i] => m <= k
      BY <2>1
    <2>3. ASSUME NEW j \in 1..(m - 1) PROVE rows[j].arcade # rows[m].arcade
      <3>1. j \in D /\ j < m
        BY <1>2, RowsAre
      <3>2. arcade[j] # arcade[i]
        BY <1>2, <2>2, <3>1
      <3> QED
        BY <2>2, <3>1, <3>2
    <2>4. m \in N
      BY <2>3 DEF NewIn
    <2> QED
      BY <2>2, <2>4
  <1>4. ASSUME NEW i \in N, NEW j \in N, arcade[i] = arcade[j] PROVE i = j
    <2>1. i \in D /\ j \in D /\ rows[i].arcade = rows[j].arcade
      BY <1>1, <1>4
    <2>2. ~(i < j)
      <3> SUFFICES ASSUME i < j PROVE FALSE
        OBVIOUS
      <3>1. i \in 1..(j - 1)
        BY <1>2, <2>1
      <3> QED
        BY <2>1, <3>1 DEF NewIn
    <2>3. ~(j < i)
      <3> SUFFICES ASSUME j < i PROVE FALSE
        OBVIOUS
      <3>1. j \in 1..(i - 1)
        BY <1>2, <2>1
      <3> QED
        BY <2>1, <3>1 DEF NewIn
    <2> QED
      BY <1>2, <2>1, <2>2, <2>3
  <1>5. Image(arcade, N) = ArcadesIn(rows, D)
    <2>1. \A i \in D : arcade[i] = rows[i].arcade
      OBVIOUS
    <2> HIDE DEF N, arcade
    <2> QED
      BY <1>1, <1>3, <2>1 DEF Image, ArcadesIn
  <1> HIDE DEF N, arcade
  <1> QED
    BY <1>1, <1>4, <1>5, ImageFinite DEF N

\* The years the rows are of, and some more.
Covers(Y, rows) == IsFiniteSet(Y) /\ Y \subseteq Nat /\ \A i \in DOMAIN rows : YearOf(rows[i].day) \in Y

LEMMA OfAYear ==
    ASSUME NEW rows, NEW Y, Covers(Y, rows)
    PROVE  /\ Selected(rows, AllYears) = DOMAIN rows
           /\ \A y \in Y : Selected(rows, y) = {i \in DOMAIN rows : YearOf(rows[i].day) = y}
  <1>1. \A y \in Y : y # -1
    BY DEF Covers
  <1> QED
    BY <1>1 DEF Selected, AllYears

\* The arcades of each day, the passport's countries, and its distance.
Numbers(rows, S) == {0} \cup {Cardinality(ArcadesIn(rows, OnDay(rows, S, d))) : d \in DaysIn(rows, S)}

ByCountry(rows, S) ==
    [c \in CountriesIn(rows, S) |-> [visits  |-> Cardinality(InCountry(rows, S, c)),
                                    arcades |-> Cardinality(ArcadesIn(rows, InCountry(rows, S, c)))]]

Distance(rows, S) == Total([i \in S |-> Leg(rows, S, i)])

LEMMA PassportIs ==
    ASSUME NEW rows, NEW S
    PROVE  /\ PassportOf(rows, S).total = Cardinality(S)
           /\ PassportOf(rows, S).arcades = Cardinality(ArcadesIn(rows, S))
           /\ PassportOf(rows, S).new = Cardinality(NewIn(rows, S))
           /\ PassportOf(rows, S).days = Cardinality(DaysIn(rows, S))
           /\ PassportOf(rows, S).busiest = Max(Numbers(rows, S))
           /\ PassportOf(rows, S).countries = ByCountry(rows, S)
           /\ PassportOf(rows, S).distance = Distance(rows, S)
  BY DEF PassportOf, Numbers, ByCountry, Distance

(* Visits, new arcades and days of the years add up to those of all.       *)
LEMMA YearsAddUp ==
    ASSUME NEW rows, VisitRows(rows), NEW Y, Covers(Y, rows)
    PROVE  /\ Cardinality(DOMAIN rows) = Total([y \in Y |-> Cardinality(Selected(rows, y))])
           /\ Cardinality(NewIn(rows, DOMAIN rows)) = Total([y \in Y |-> Cardinality(NewIn(rows, Selected(rows, y)))])
           /\ Cardinality(DaysIn(rows, DOMAIN rows)) = Total([y \in Y |-> Cardinality(DaysIn(rows, Selected(rows, y)))])
  <1> DEFINE D == DOMAIN rows
             N == NewIn(rows, D)
             A == DaysIn(rows, D)
             year == [i \in D |-> YearOf(rows[i].day)]
             yearOf == [d \in A |-> YearOf(d)]
             total == [y \in Y |-> Cardinality(Selected(rows, y))]
             new == [y \in Y |-> Cardinality(NewIn(rows, Selected(rows, y)))]
             days == [y \in Y |-> Cardinality(DaysIn(rows, Selected(rows, y)))]
  <1>1. IsFiniteSet(Y) /\ \A i \in D : year[i] \in Y
    BY DEF Covers
  <1>2. \A y \in Y : Selected(rows, y) = {i \in D : year[i] = y}
    BY OfAYear
  <1>3. IsFiniteSet(D) /\ IsFiniteSet(N) /\ IsFiniteSet(A) /\ N \subseteq D
    <2>1. N \subseteq D
      BY DEF NewIn
    <2> HIDE DEF N
    <2> QED
      BY <2>1, RowsAre
  <1>4. \A y \in Y : Selected(rows, y) = Part(D, year, y)
    BY <1>2 DEF Part
  <1>5. \A y \in Y : NewIn(rows, Selected(rows, y)) = Part(N, year, y)
    BY <1>2 DEF Part, NewIn
  <1>6. \A y \in Y : DaysIn(rows, Selected(rows, y)) = Part(A, yearOf, y)
    <2> TAKE y \in Y
    <2>1. DaysIn(rows, Selected(rows, y)) = {rows[i].day : i \in {j \in D : YearOf(rows[j].day) = y}}
      BY <1>2, OfAYear DEF DaysIn
    <2>2. Part(A, yearOf, y) = {d \in A : YearOf(d) = y}
      BY DEF Part
    <2>3. A = {rows[i].day : i \in D}
      BY DEF DaysIn
    <2> HIDE DEF A, yearOf, year
    <2> QED
      BY <2>1, <2>2, <2>3
  <1>7. \A d \in A : yearOf[d] \in Y
    BY <1>1 DEF DaysIn
  <1>8. DOMAIN total = Y /\ DOMAIN new = Y /\ DOMAIN days = Y
    OBVIOUS
  <1>9. \A y \in Y : /\ total[y] = Cardinality(Part(D, year, y)) /\ new[y] = Cardinality(Part(N, year, y))
                     /\ days[y] = Cardinality(Part(A, yearOf, y))
    BY <1>4, <1>5, <1>6
  <1> HIDE DEF total, new, days, year, yearOf, N, A
  <1>10. SumOver(total, Y) = Cardinality(D)
    BY <1>1, <1>3, <1>9, SumOfParts
  <1>11. SumOver(new, Y) = Cardinality(N)
    <2>1. \A i \in N : year[i] \in Y
      BY <1>1, <1>3
    <2> QED
      BY <1>1, <1>3, <1>9, <2>1, SumOfParts
  <1>12. SumOver(days, Y) = Cardinality(A)
    BY <1>1, <1>3, <1>7, <1>9, SumOfParts
  <1>13. Total(total) = Cardinality(D) /\ Total(new) = Cardinality(N) /\ Total(days) = Cardinality(A)
    BY <1>8, <1>10, <1>11, <1>12, TotalIs
  <1> QED
    BY <1>13 DEF total, new, days, N, A

(* So do the visits and the arcades of the countries.                      *)
LEMMA CountriesAddUp ==
    ASSUME NEW rows, VisitRows(rows)
    PROVE  LET C == CountriesIn(rows, DOMAIN rows) IN
           /\ Cardinality(DOMAIN rows) = Total([c \in C |-> Cardinality(InCountry(rows, DOMAIN rows, c))])
           /\ Cardinality(ArcadesIn(rows, DOMAIN rows))
                = Total([c \in C |-> Cardinality(ArcadesIn(rows, InCountry(rows, DOMAIN rows, c)))])
  <1> DEFINE D == DOMAIN rows
             C == CountriesIn(rows, D)
             A == ArcadesIn(rows, D)
             at == [i \in D |-> HomeCountry[rows[i].arcade]]
             home == [a \in A |-> HomeCountry[a]]
             visited == [c \in C |-> Cardinality(InCountry(rows, D, c))]
             arcades == [c \in C |-> Cardinality(ArcadesIn(rows, InCountry(rows, D, c)))]
  <1>1. IsFiniteSet(D) /\ IsFiniteSet(A) /\ IsFiniteSet(C)
    BY RowsAre
  <1>2. (\A i \in D : at[i] \in C) /\ (\A a \in A : home[a] \in C)
    BY DEF CountriesIn, ArcadesIn
  <1>3. ASSUME NEW c \in C
        PROVE  /\ InCountry(rows, D, c) = Part(D, at, c)
               /\ ArcadesIn(rows, InCountry(rows, D, c)) = Part(A, home, c)
    BY DEF InCountry, ArcadesIn, Part
  <1>4. \A c \in C : /\ visited[c] = Cardinality(Part(D, at, c))
                     /\ arcades[c] = Cardinality(Part(A, home, c))
    BY <1>3
  <1>5. DOMAIN visited = C /\ DOMAIN arcades = C
    OBVIOUS
  <1> HIDE DEF C, A, at, home, visited, arcades
  <1>6. SumOver(visited, C) = Cardinality(D)
    BY <1>1, <1>2, <1>4, SumOfParts
  <1>7. SumOver(arcades, C) = Cardinality(A)
    BY <1>1, <1>2, <1>4, SumOfParts
  <1>8. Total(visited) = Cardinality(D) /\ Total(arcades) = Cardinality(A)
    BY <1>5, <1>6, <1>7, TotalIs
  <1> QED
    BY <1>8 DEF visited, arcades, A, C

LEMMA LegIs ==
    ASSUME NEW rows, VisitRows(rows), NEW S \in SUBSET (DOMAIN rows), NEW T \in SUBSET S, NEW i \in S
    PROVE  Leg(rows, S, i) \in Int /\ Leg(rows, T, i) \in Int /\ Leg(rows, T, i) <= Leg(rows, S, i)
  <1>1. Leg(rows, S, i) = 0 \/ (i - 1 \in S /\ Leg(rows, S, i) = Apart(rows[i].arcade, rows[i - 1].arcade))
    BY DEF Leg
  <1>2. i - 1 \in S => Apart(rows[i].arcade, rows[i - 1].arcade) \in Nat
    <2> HAVE i - 1 \in S
    <2>1. Where[rows[i].arcade] \in Int /\ Where[rows[i - 1].arcade] \in Int
      BY RowsAre
    <2> QED
      BY <2>1 DEF Apart
  <1>3. Leg(rows, T, i) = IF i - 1 \in T THEN Apart(rows[i].arcade, rows[i - 1].arcade) ELSE 0
    BY DEF Leg
  <1>4. i - 1 \in T => Leg(rows, S, i) = Apart(rows[i].arcade, rows[i - 1].arcade)
    BY DEF Leg
  <1> QED
    BY <1>1, <1>2, <1>3, <1>4

(* No year claims a distance the whole does not have.                      *)
LEMMA DistanceAddsUp ==
    ASSUME NEW rows, VisitRows(rows), NEW Y, Covers(Y, rows)
    PROVE  Distance(rows, DOMAIN rows) >= Total([y \in Y |-> Distance(rows, Selected(rows, y))])
  <1> DEFINE D == DOMAIN rows
             year == [i \in D |-> YearOf(rows[i].day)]
             leg == [i \in D |-> Leg(rows, D, i)]
             Sel(y) == Selected(rows, y)
             part(y) == [i \in Sel(y) |-> Leg(rows, Sel(y), i)]
             years == [y \in Y |-> Distance(rows, Sel(y))]
  <1>1. IsFiniteSet(Y) /\ IsFiniteSet(D) /\ \A i \in D : year[i] \in Y
    BY RowsAre DEF Covers
  <1>2. Summable(leg, D) /\ DOMAIN leg = D
    <2>1. \A i \in D : Leg(rows, D, i) \in Int
      BY LegIs
    <2> QED
      BY <1>1, <2>1 DEF Summable
  <1>3. ASSUME NEW y \in Y PROVE years[y] \in Int /\ years[y] <= SumOver(leg, Part(D, year, y))
    <2> DEFINE S == Sel(y)
               p == part(y)
    <2>1. S = Part(D, year, y) /\ S \in SUBSET D
      BY OfAYear DEF Part
    <2>2. IsFiniteSet(S)
      BY <1>1, <2>1, FS_Subset
    <2>3. DOMAIN p = S /\ \A i \in S : p[i] = Leg(rows, S, i) /\ leg[i] = Leg(rows, D, i)
      BY <2>1
    <2>4. \A i \in S : p[i] \in Int /\ leg[i] \in Int /\ p[i] <= leg[i]
      <3> TAKE i \in S
      <3>1. D \in SUBSET (DOMAIN rows) /\ i \in D
        BY <2>1
      <3> HIDE DEF S, p, leg
      <3> QED
        BY <2>1, <2>3, <3>1, LegIs
    <2>5. years[y] = Total(p)
      BY DEF Distance
    <2> HIDE DEF p, leg, S, year, years
    <2>6. Summable(p, S) /\ Summable(leg, S)
      BY <2>2, <2>4 DEF Summable
    <2>7. SumOver(p, S) <= SumOver(leg, S) /\ SumOver(p, S) \in Int
      BY <2>4, <2>6, SumAtMost, SumType
    <2>8. Total(p) = SumOver(p, S)
      BY <2>3, TotalIs
    <2> QED
      BY <2>1, <2>5, <2>7, <2>8
  <1>4. DOMAIN years = Y
    OBVIOUS
  <1> HIDE DEF leg, years, year
  <1>5. SumOver(years, Y) <= SumOver(leg, D)
    BY <1>1, <1>2, <1>3, SumOfSums
  <1>6. Total(years) = SumOver(years, Y) /\ Total(leg) = SumOver(leg, D)
    BY <1>2, <1>4, TotalIs
  <1>7. SumOver(years, Y) \in Int /\ SumOver(leg, D) \in Int
    BY <1>1, <1>2, <1>3, SumType DEF Summable
  <1>8. Total(leg) >= Total(years)
    BY <1>5, <1>6, <1>7
  <1> QED
    BY <1>8 DEF leg, years, Distance

LEMMA NumbersAre ==
    ASSUME NEW rows, VisitRows(rows), NEW S \in SUBSET (DOMAIN rows)
    PROVE  IsFiniteSet(Numbers(rows, S)) /\ Numbers(rows, S) \subseteq Nat /\ Numbers(rows, S) # {}
  <1> DEFINE count == [d \in DaysIn(rows, S) |-> Cardinality(ArcadesIn(rows, OnDay(rows, S, d)))]
  <1>1. Numbers(rows, S) = {0} \cup Image(count, DaysIn(rows, S))
    BY DEF Numbers, Image
  <1>2. IsFiniteSet(DaysIn(rows, S))
    BY RowsAre
  <1>3. \A d \in DaysIn(rows, S) : count[d] \in Nat
    <2> TAKE d \in DaysIn(rows, S)
    <2>1. OnDay(rows, S, d) \in SUBSET (DOMAIN rows)
      BY DEF OnDay
    <2>2. IsFiniteSet(ArcadesIn(rows, OnDay(rows, S, d)))
      BY <2>1, RowsAre
    <2> QED
      BY <2>2, FS_CardinalityType
  <1> HIDE DEF count
  <1>4. IsFiniteSet(Image(count, DaysIn(rows, S))) /\ Image(count, DaysIn(rows, S)) \subseteq Nat
    BY <1>2, <1>3, ImageFinite DEF Image
  <1> DEFINE T == Image(count, DaysIn(rows, S))
  <1>5. IsFiniteSet(T) /\ T \subseteq Nat /\ Numbers(rows, S) = T \cup {0}
    BY <1>1, <1>4
  <1> HIDE DEF T
  <1>6. IsFiniteSet(T \cup {0})
    BY <1>5, FS_AddElement
  <1> QED
    BY <1>5, <1>6

(* No day of a year is busier than the busiest of all.                     *)
LEMMA BusiestIs ==
    ASSUME NEW rows, VisitRows(rows), NEW year
    PROVE  Max(Numbers(rows, Selected(rows, year))) <= Max(Numbers(rows, DOMAIN rows))
  <1> DEFINE D == DOMAIN rows
             S == Selected(rows, year)
  <1>1. S \in SUBSET D /\ D \in SUBSET D
    BY DEF Selected
  <1>2. ASSUME NEW d \in DaysIn(rows, S)
        PROVE  d \in DaysIn(rows, D) /\ OnDay(rows, S, d) = OnDay(rows, D, d)
    <2>1. PICK j \in S : rows[j].day = d
      BY DEF DaysIn
    <2>2. S = {i \in D : year = AllYears \/ YearOf(rows[i].day) = year}
      BY DEF Selected
    <2> HIDE DEF S
    <2>3. \A i \in D : rows[i].day = d => i \in S
      BY <2>1, <2>2
    <2> QED
      BY <1>1, <2>1, <2>3 DEF DaysIn, OnDay
  <1>3. Numbers(rows, S) \subseteq Numbers(rows, D)
    <2> HIDE DEF S
    <2> QED
      BY <1>2 DEF Numbers
  <1>4. \A T \in {S, D} : Max(Numbers(rows, T)) \in Numbers(rows, T) /\ \A x \in Numbers(rows, T) : x <= Max(Numbers(rows, T))
    <2> TAKE T \in {S, D}
    <2>1. IsFiniteSet(Numbers(rows, T)) /\ Numbers(rows, T) \subseteq Nat /\ Numbers(rows, T) # {}
      BY <1>1, NumbersAre
    <2>2. Numbers(rows, T) \subseteq Int
      BY <2>1
    <2> QED
      BY <2>1, <2>2, Maximum
  <1> QED
    BY <1>3, <1>4

(* The passport of all years is the sum of the passports of each, however  *)
(* the rows are ordered.                                                   *)
LEMMA RowsAddUp ==
    ASSUME NEW rows, VisitRows(rows), Covers(Years, rows)
    PROVE  AddsUp(rows)
  <1> DEFINE D == DOMAIN rows
             all == Passport(rows, AllYears)
             year == [y \in Years |-> Passport(rows, y)]
             C == CountriesIn(rows, D)
  <1>1. Selected(rows, AllYears) = D
    BY OfAYear
  <1>2. all = PassportOf(rows, D)
    BY <1>1 DEF Passport
  <1>3. ASSUME NEW y \in Years PROVE year[y] = PassportOf(rows, Selected(rows, y))
    BY DEF Passport
  <1> HIDE DEF all, year, D, C
  <1>4. /\ [y \in Years |-> year[y].total] = [y \in Years |-> Cardinality(Selected(rows, y))]
        /\ [y \in Years |-> year[y].new] = [y \in Years |-> Cardinality(NewIn(rows, Selected(rows, y)))]
        /\ [y \in Years |-> year[y].days] = [y \in Years |-> Cardinality(DaysIn(rows, Selected(rows, y)))]
        /\ [y \in Years |-> year[y].distance] = [y \in Years |-> Distance(rows, Selected(rows, y))]
    BY <1>3, PassportIs
  <1>5. /\ all.total = Total([y \in Years |-> year[y].total])
        /\ all.arcades = Total([y \in Years |-> year[y].new]) /\ all.new = all.arcades
        /\ all.days = Total([y \in Years |-> year[y].days])
    <2>1. all.total = Cardinality(D) /\ all.arcades = Cardinality(ArcadesIn(rows, D))
          /\ all.new = Cardinality(NewIn(rows, D)) /\ all.days = Cardinality(DaysIn(rows, D))
      BY <1>2, PassportIs
    <2>2. Cardinality(NewIn(rows, D)) = Cardinality(ArcadesIn(rows, D))
      BY NewOnce DEF D
    <2>3. /\ Cardinality(D) = Total([y \in Years |-> year[y].total])
          /\ Cardinality(NewIn(rows, D)) = Total([y \in Years |-> year[y].new])
          /\ Cardinality(DaysIn(rows, D)) = Total([y \in Years |-> year[y].days])
      BY <1>4, YearsAddUp DEF D
    <2> QED
      BY <2>1, <2>2, <2>3
  <1>6. all.distance >= Total([y \in Years |-> year[y].distance])
    <2>1. all.distance = Distance(rows, D)
      BY <1>2, PassportIs
    <2>2. Distance(rows, D) >= Total([y \in Years |-> Distance(rows, Selected(rows, y))])
      BY DistanceAddsUp DEF D
    <2> QED
      BY <1>4, <2>1, <2>2
  <1> DEFINE countries == all.countries
  <1>7. /\ DOMAIN countries = C
        /\ [c \in C |-> countries[c].visits] = [c \in C |-> Cardinality(InCountry(rows, D, c))]
        /\ [c \in C |-> countries[c].arcades] = [c \in C |-> Cardinality(ArcadesIn(rows, InCountry(rows, D, c)))]
    <2>1. countries = ByCountry(rows, D)
      BY <1>2, PassportIs
    <2> HIDE DEF countries
    <2> QED
      BY <2>1 DEF ByCountry, C
  <1>8. /\ all.total = Total([c \in DOMAIN countries |-> countries[c].visits])
        /\ all.arcades = Total([c \in DOMAIN countries |-> countries[c].arcades])
    <2>1. all.total = Cardinality(D) /\ all.arcades = Cardinality(ArcadesIn(rows, D))
      BY <1>2, PassportIs
    <2>2. /\ Cardinality(D) = Total([c \in C |-> countries[c].visits])
          /\ Cardinality(ArcadesIn(rows, D)) = Total([c \in C |-> countries[c].arcades])
      BY <1>7, CountriesAddUp DEF C, D
    <2> QED
      BY <1>7, <2>1, <2>2
  <1>9. ASSUME NEW y \in Years PROVE year[y].busiest <= all.busiest
    <2>1. year[y].busiest = Max(Numbers(rows, Selected(rows, y))) /\ all.busiest = Max(Numbers(rows, D))
      BY <1>2, <1>3, PassportIs
    <2> QED
      BY <2>1, BusiestIs DEF D
  <1> QED
    BY <1>5, <1>6, <1>8, <1>9 DEF AddsUp, all, year

-------------------------------------------------------------------------------
(* Visits of a user, in order, and the country that stands above others.   *)

(* The visits of a user can be put in the order of their times.            *)
LEMMA OrderExists ==
    ASSUME NEW rows, VisitRows(rows), NEW S \in SUBSET (DOMAIN rows)
    PROVE  LET n == Cardinality(S) IN
           /\ n \in Nat
           /\ \E f \in [1..n -> S] :
                 \A i, j \in 1..n : i < j => f[i] # f[j] /\ rows[f[i]].at <= rows[f[j]].at
  <1> DEFINE M == Len(rows) + 1
             k == [i \in S |-> rows[i].at * M + i]
             n == Cardinality(S)
  <1>1. M \in Nat /\ DOMAIN rows = 1..(M - 1)
    BY DEF VisitRows
  <1>2. \A i \in S : i \in 1..(M - 1) /\ rows[i].at \in Nat
    BY <1>1, RowsAre
  <1> HIDE DEF M
  <1>3. ASSUME NEW i \in S, NEW j \in S, rows[i].at < rows[j].at PROVE k[i] < k[j]
    <2> DEFINE a == rows[i].at
               d == rows[j].at - a - 1
    <2>1. a \in Nat /\ d \in Nat /\ rows[j].at = a + 1 + d /\ i \in Int /\ j \in Int /\ i < M /\ j > 0
      BY <1>1, <1>2, <1>3
    <2>2. \A x, y, z \in Nat : (x + 1 + y) * z = x * z + z + y * z /\ y * z \in Nat /\ x * z \in Nat
      OBVIOUS
    <2>3. k[i] = a * M + i /\ k[j] = rows[j].at * M + j
      OBVIOUS
    <2> HIDE DEF a, d, k
    <2>4. k[j] = (a + 1 + d) * M + j
      BY <2>1, <2>3
    <2> DEFINE p == a * M
               q == d * M
    <2>5. (a + 1 + d) * M = p + M + q /\ p \in Nat /\ q \in Nat
      BY <1>1, <2>1, <2>2
    <2>6. k[i] = p + i /\ k[j] = p + M + q + j
      BY <2>3, <2>4, <2>5
    <2> HIDE DEF p, q
    <2> QED
      BY <1>1, <2>1, <2>5, <2>6
  <1>4. \A i \in S : k[i] \in Int
    BY <1>1, <1>2
  <1>5. ASSUME NEW i \in S, NEW j \in S, k[i] = k[j] PROVE i = j
    <2>1. ~(rows[i].at < rows[j].at) /\ ~(rows[j].at < rows[i].at)
      BY <1>3, <1>4, <1>5
    <2>2. rows[i].at = rows[j].at
      BY <1>2, <2>1
    <2>3. k[i] = rows[i].at * M + i /\ k[j] = rows[i].at * M + j
      BY <2>2
    <2>4. rows[i].at * M \in Int /\ i \in Int /\ j \in Int
      BY <1>1, <1>2
    <2> DEFINE p == rows[i].at * M
    <2>5. p + i = p + j /\ p \in Int
      BY <1>5, <2>3, <2>4
    <2> HIDE DEF p
    <2> QED
      BY <2>4, <2>5
  <1>6. Distinct(S, k) /\ n \in Nat
    <2>1. IsFiniteSet(S)
      BY RowsAre
    <2> HIDE DEF k
    <2> QED
      BY <1>4, <1>5, <2>1, FS_CardinalityType DEF Distinct
  <1> HIDE DEF k, n
  <1>7. PICK f : Sorted(f, S, k)
    BY <1>6, SortedExists
  <1>8. f \in [1..n -> S] /\ \A i, j \in 1..n : i < j => k[f[i]] < k[f[j]]
    BY <1>7 DEF Sorted, n
  <1>9. ASSUME NEW i \in 1..n, NEW j \in 1..n, i < j PROVE f[i] # f[j] /\ rows[f[i]].at <= rows[f[j]].at
    <2>1. f[i] \in S /\ f[j] \in S /\ k[f[i]] < k[f[j]] /\ k[f[i]] \in Int /\ k[f[j]] \in Int
      BY <1>4, <1>8, <1>9
    <2>2. ~(rows[f[j]].at < rows[f[i]].at)
      BY <1>3, <2>1
    <2> QED
      BY <1>2, <2>1, <2>2
  <1> QED
    BY <1>6, <1>8, <1>9 DEF n

LEMMA StampedIs ==
    ASSUME VisitRows(visits), NEW u
    PROVE  VisitRows(Stamped(u)) /\ Covers(Years, Stamped(u))
  <1> DEFINE S == PublicVisits(visits, u)
             n == Cardinality(S)
             Good(f) == \A i, j \in 1..n : i < j => f[i] # f[j] /\ visits[f[i]].at <= visits[f[j]].at
             order == CHOOSE f \in [1..n -> S] : Good(f)
             rows == [k \in 1..n |-> visits[order[k]]]
  <1>1. S \in SUBSET (DOMAIN visits)
    BY DEF PublicVisits, VisitsOf
  <1>2. n \in Nat /\ \E f \in [1..n -> S] : Good(f)
    <2> HIDE DEF S
    <2> QED
      BY <1>1, OrderExists
  <1>3. order \in [1..n -> S]
    <2> HIDE DEF Good, n, S
    <2> QED
      BY <1>2
  <1>4. Stamped(u) = rows
    BY DEF Stamped
  <1> HIDE DEF order, n, S, Good
  <1>5. DOMAIN rows = 1..n /\ \A i \in DOMAIN rows : \E j \in DOMAIN visits : rows[i] = visits[j]
    BY <1>1, <1>3
  <1>6. \A j \in DOMAIN visits : visits[j] \in Visit /\ Where[visits[j].arcade] \in Int
    BY RowsAre
  <1>7. rows \in Seq(Visit)
    <2>1. rows \in [1..n -> Visit]
      BY <1>5, <1>6
    <2> HIDE DEF rows
    <2>2. \A m \in Nat : [1..m -> Visit] \subseteq Seq(Visit)
      OBVIOUS
    <2> QED
      BY <1>2, <2>1, <2>2, Zenon
  <1>8. \A i \in DOMAIN rows : Where[rows[i].arcade] \in Int
    BY <1>5, <1>6
  <1>9. IsFiniteSet(Years) /\ Years \subseteq Nat
    <2> DEFINE year == [i \in DOMAIN visits |-> YearOf(visits[i].day)]
    <2>1. Years = Image(year, DOMAIN visits)
      BY DEF Years, Image
    <2>2. IsFiniteSet(DOMAIN visits) /\ \A i \in DOMAIN visits : year[i] \in Nat
      BY RowsAre
    <2> HIDE DEF year
    <2> QED
      BY <2>1, <2>2, ImageFinite DEF Image
  <1>10. \A i \in DOMAIN rows : YearOf(rows[i].day) \in Years
    BY <1>5 DEF Years
  <1> HIDE DEF rows
  <1> QED
    BY <1>4, <1>7, <1>8, <1>9, <1>10 DEF VisitRows, Covers

(* Among finitely many there is one that no other stands above.            *)
LEMMA SomeIsTop ==
    ASSUME NEW D, IsFiniteSet(D), D # {}, NEW r, \A d \in D : r[d] \in Int \X Int \X Int
    PROVE  \E c \in D : \A d \in D : ~Above(r[d], r[c])
  <1>1. ASSUME NEW E \in SUBSET D, E # {}, NEW m \in {1, 2, 3}
        PROVE  \E c \in E : \A d \in E : r[d][m] <= r[c][m]
    <2> DEFINE k == [d \in E |-> r[d][m]]
    <2>1. \A d \in E : k[d] \in Int
      OBVIOUS
    <2>2. IsFiniteSet(E)
      BY FS_Subset
    <2>3. \A d \in E : k[d] = r[d][m]
      OBVIOUS
    <2> HIDE DEF k
    <2>4. IsFiniteSet(Image(k, E)) /\ Image(k, E) \subseteq Int /\ Image(k, E) # {}
      BY <1>1, <2>1, <2>2, ImageFinite DEF Image
    <2>5. Max(Image(k, E)) \in Image(k, E) /\ \A y \in Image(k, E) : y <= Max(Image(k, E))
      BY <2>4, Maximum
    <2>6. PICK c \in E : Max(Image(k, E)) = k[c]
      BY <2>5 DEF Image
    <2>7. \A d \in E : k[d] <= k[c]
      BY <2>5, <2>6 DEF Image
    <2> QED
      BY <2>3, <2>7
  <1>2. PICK a \in D : \A d \in D : r[d][1] <= r[a][1]
    BY <1>1
  <1> DEFINE E == {d \in D : r[d][1] = r[a][1]}
  <1>3. PICK b \in E : \A d \in E : r[d][2] <= r[b][2]
    <2>1. a \in E /\ E \in SUBSET D
      OBVIOUS
    <2> HIDE DEF E
    <2> QED
      BY <1>1, <2>1
  <1> DEFINE F == {d \in E : r[d][2] = r[b][2]}
  <1>4. PICK c \in F : \A d \in F : r[d][3] <= r[c][3]
    <2>1. b \in F /\ F \in SUBSET D
      OBVIOUS
    <2> HIDE DEF F, E
    <2> QED
      BY <1>1, <2>1
  <1>5. ASSUME NEW d \in D PROVE ~Above(r[d], r[c])
    <2>1. c \in D /\ r[c][1] = r[a][1] /\ r[c][2] = r[b][2] /\ r[c] \in Int \X Int \X Int /\ r[d] \in Int \X Int \X Int
      OBVIOUS
    <2>2. r[d][1] <= r[c][1]
      BY <1>2, <2>1
    <2>3. r[d][1] = r[c][1] => r[d][2] <= r[c][2]
      BY <1>3, <2>1
    <2>4. r[d][1] = r[c][1] /\ r[d][2] = r[c][2] => r[d][3] <= r[c][3]
      BY <1>4, <2>1
    <2> QED
      BY <2>1, <2>2, <2>3, <2>4 DEF Above
  <1> QED
    BY <1>5

LEMMA TopIs ==
    ASSUME NEW rows, VisitRows(rows), NEW u
    PROVE  TopVisitedCountry(rows, u) \in Countries \cup {NoLand}
  <1> DEFINE all == PublicVisits(rows, u)
             D == CountriesIn(rows, all)
             rank == [c \in D |-> Standing(rows, InCountry(rows, all, c))]
  <1>1. all \in SUBSET (DOMAIN rows)
    BY DEF PublicVisits, VisitsOf
  <1>2. CASE all = {}
    BY <1>2 DEF TopVisitedCountry
  <1>3. CASE all # {}
    <2>1. D # {} /\ D \subseteq Countries /\ IsFiniteSet(D)
      <3>1. \A i \in all : rows[i].arcade \in Arcades
        BY <1>1, RowsAre
      <3>2. IsFiniteSet(D)
        BY <1>1, RowsAre
      <3> HIDE DEF all
      <3> QED
        BY <1>3, <3>1, <3>2 DEF CountriesIn, ArcadesIn, Countries
    <2>2. ASSUME NEW c \in D PROVE rank[c] \in Int \X Int \X Int
      <3> DEFINE S == InCountry(rows, all, c)
                 at == [i \in S |-> rows[i].at]
      <3>1. S \in SUBSET (DOMAIN rows) /\ S # {}
        BY <1>1 DEF InCountry, CountriesIn, ArcadesIn
      <3> HIDE DEF S, all, D
      <3>2. IsFiniteSet(S) /\ IsFiniteSet(ArcadesIn(rows, S)) /\ \A i \in S : at[i] \in Int
        BY <3>1, RowsAre
      <3>3. Cardinality(S) \in Int /\ Cardinality(ArcadesIn(rows, S)) \in Int
        BY <3>2, FS_CardinalityType
      <3>4. {rows[i].at : i \in S} = Image(at, S)
        BY DEF Image
      <3> HIDE DEF at
      <3>5. IsFiniteSet(Image(at, S)) /\ Image(at, S) \subseteq Int /\ Image(at, S) # {}
        BY <3>1, <3>2, ImageFinite DEF Image
      <3>6. Max(Image(at, S)) \in Int
        BY <3>5, Maximum
      <3>7. Latest(rows, S) \in Int
        BY <3>4, <3>6 DEF Latest
      <3>8. rank[c] = Standing(rows, S)
        BY DEF S
      <3> HIDE DEF rank
      <3> QED
        BY <3>3, <3>7, <3>8 DEF Standing
    <2>3. TopVisitedCountry(rows, u) = CHOOSE c \in DOMAIN rank : \A d \in DOMAIN rank : ~Above(rank[d], rank[c])
      BY <1>3 DEF TopVisitedCountry
    <2>4. DOMAIN rank = D
      OBVIOUS
    <2> HIDE DEF rank, D, all
    <2>5. \E c \in D : \A d \in D : ~Above(rank[d], rank[c])
      BY <2>1, <2>2, SomeIsTop
    <2>6. TopVisitedCountry(rows, u) \in D
      BY <2>3, <2>4, <2>5
    <2> QED
      BY <2>1, <2>6
  <1> QED
    BY <1>2, <1>3

-------------------------------------------------------------------------------
(* Attendance: what is true at any time.                                   *)

Land == Countries \cup {NoLand}

\* What requests under way have read.
Arriving ==
    {Away} \cup [step : {"read"}, user : Visitors, old : Land]
           \cup [step : {"ranked"}, user : Visitors, old : Land, new : Land]
           \cup [step : {"visit"}, user : Visitors, arcade : {a \in Arcades : Where[a] # Nowhere},
                 at : Nat, day : Nat, first : BOOLEAN]

OnceADay ==
    \A i, j \in DOMAIN visits :
        i # j /\ visits[i].user = visits[j].user /\ visits[i].arcade = visits[j].arcade =>
          /\ visits[i].day # visits[j].day
          /\ visits[i].gained = 2 \/ visits[j].gained = 2

CheckIns(x, u) == {e \in x.log : e.user = u /\ e.kind[1] = "check_in"}
Gains(rows, u) == [i \in VisitsOf(rows, u) |-> rows[i].gained]

\* The visits of the ledger are numbered by rows, and it has a row for each.
LedgerStands ==
    /\ exp.exp \in [Users -> Int] /\ IsFiniteSet(exp.log)
    /\ \A e \in exp.log : e.kind[1] = "visit" => e.kind[2] \in 1..Len(visits)
    /\ \A u \in Visitors : exp.exp[u] = Total(Gains(visits, u)) + Cardinality(CheckIns(exp, u))

AttendanceInv ==
    /\ AttendanceTypeOK /\ VisitRows(visits) /\ arrival \in [Arrivals -> Arriving]
    /\ OnceADay /\ LedgerStands

LEMMA AttendanceBegins == AttendanceInit => AttendanceInv
  <1> SUFFICES ASSUME AttendanceInit PROVE AttendanceInv
    OBVIOUS
  <1> USE DEF AttendanceInit
  <1>1. visits = <<>> /\ DOMAIN visits = {} /\ VisitRows(visits)
    BY DEF VisitRows
  <1>2. AttendanceTypeOK
    <2>1. <<>> \in Seq(Visit)
      OBVIOUS
    <2> QED
      BY <1>1, <2>1 DEF AttendanceTypeOK
  <1>3. arrival \in [Arrivals -> Arriving]
    BY DEF Arriving
  <1>4. OnceADay
    BY <1>1 DEF OnceADay
  <1>5. LedgerStands
    <2>1. exp.exp = [u \in Users |-> 0] /\ exp.log = {} /\ Visitors \subseteq Users
      BY NamedAssumption
    <2> HIDE DEF AttendanceInit
    <2>2. ASSUME NEW u \in Visitors
          PROVE  exp.exp[u] = Total(Gains(visits, u)) + Cardinality(CheckIns(exp, u))
      <3>1. CheckIns(exp, u) = {} /\ VisitsOf(visits, u) = {}
        BY <1>1, <2>1 DEF CheckIns, VisitsOf
      <3>2. DOMAIN Gains(visits, u) = {}
        BY <3>1 DEF Gains
      <3>3. Total(Gains(visits, u)) = 0
        BY <3>2, TotalIs, SumChoice, FS_EmptySet
      <3>4. exp.exp[u] = 0 /\ Cardinality(CheckIns(exp, u)) = 0
        BY <2>1, <3>1, FS_EmptySet
      <3> QED
        BY ONLY <3>3, <3>4
    <2>3. exp.exp \in [Users -> Int] /\ IsFiniteSet(exp.log)
      BY <2>1, FS_EmptySet
    <2>4. \A e \in exp.log : e.kind[1] = "visit" => e.kind[2] \in 1..Len(visits)
      BY <2>1
    <2> QED
      BY ONLY <2>2, <2>3, <2>4 DEF LedgerStands
  <1> QED
    BY <1>1, <1>2, <1>3, <1>4, <1>5 DEF AttendanceInv

LEMMA GainIs == \A v \in Visit : v.gained \in Int
  BY DEF Visit

LEMMA GainsType ==
    ASSUME NEW rows \in Seq(Visit), NEW u
    PROVE  Total(Gains(rows, u)) \in Int
  <1> DEFINE S == VisitsOf(rows, u)
             g == Gains(rows, u)
  <1>1. DOMAIN rows = 1..Len(rows) /\ Len(rows) \in Nat /\ \A i \in DOMAIN rows : rows[i] \in Visit
    OBVIOUS
  <1>2. \A m \in Nat : IsFiniteSet(1..m)
    BY FS_Interval
  <1>3. IsFiniteSet(S)
    <2>1. S \in SUBSET (DOMAIN rows) /\ IsFiniteSet(DOMAIN rows)
      BY <1>1, <1>2 DEF VisitsOf
    <2> QED
      BY <2>1, FS_Subset
  <1>4. DOMAIN g = S /\ \A i \in S : g[i] \in Int
    BY <1>1, GainIs DEF Gains, VisitsOf
  <1> HIDE DEF g, S
  <1>5. SumOver(g, S) \in Int
    BY <1>3, <1>4, SumType DEF Summable
  <1> QED
    BY <1>4, <1>5, TotalIs DEF g

(* One more row.                                                           *)
LEMMA OneMoreVisit ==
    ASSUME NEW rows \in Seq(Visit), NEW row \in Visit, NEW u
    PROVE  LET more == Append(rows, row) IN
           /\ more \in Seq(Visit) /\ Len(more) = Len(rows) + 1 /\ DOMAIN more = DOMAIN rows \cup {Len(rows) + 1}
           /\ more[Len(rows) + 1] = row /\ \A i \in DOMAIN rows : more[i] = rows[i]
           /\ DOMAIN rows = 1..Len(rows) /\ Len(rows) + 1 \notin DOMAIN rows /\ Len(rows) \in Nat
           /\ Total(Gains(more, u)) = Total(Gains(rows, u)) + (IF row.user = u THEN row.gained ELSE 0)
           /\ Total(Gains(rows, u)) \in Int
  <1> DEFINE more == Append(rows, row)
             n == Len(rows)
             old == Gains(rows, u)
             new == Gains(more, u)
             S == VisitsOf(rows, u)
  <1>1. /\ more \in Seq(Visit) /\ Len(more) = n + 1 /\ DOMAIN more = DOMAIN rows \cup {n + 1}
        /\ more[n + 1] = row /\ \A i \in DOMAIN rows : more[i] = rows[i]
        /\ DOMAIN rows = 1..n /\ n + 1 \notin DOMAIN rows /\ n \in Nat
    OBVIOUS
  <1>2. VisitsOf(more, u) = IF row.user = u THEN S \cup {n + 1} ELSE S
    <2> HIDE DEF more, n
    <2> QED
      BY <1>1 DEF VisitsOf
  <1>3. S \in SUBSET (DOMAIN rows) /\ IsFiniteSet(S)
    <2>1. S \in SUBSET (DOMAIN rows)
      BY DEF VisitsOf
    <2>2. \A m \in Nat : IsFiniteSet(1..m)
      BY FS_Interval
    <2>3. IsFiniteSet(DOMAIN rows)
      BY <1>1, <2>2
    <2> HIDE DEF S
    <2> QED
      BY <2>1, <2>3, FS_Subset
  <1>4. DOMAIN old = S /\ DOMAIN new = VisitsOf(more, u)
    BY DEF Gains
  <1>5. \A i \in S : old[i] \in Int /\ new[i] = old[i]
    <2> TAKE i \in S
    <2>0. i \in DOMAIN rows
      BY <1>3
    <2> HIDE DEF S, more
    <2>1. i \in VisitsOf(more, u) /\ rows[i] \in Visit /\ more[i] = rows[i]
      BY <1>1, <1>2, <2>0
    <2>2. rows[i].gained \in Int
      BY <2>1, GainIs
    <2>3. old[i] = rows[i].gained
      BY DEF Gains, S
    <2>4. new[i] = more[i].gained
      BY <2>1 DEF Gains
    <2> QED
      BY <2>1, <2>2, <2>3, <2>4
  <1>6. row.user = u => new[n + 1] = row.gained /\ row.gained \in Int
    <2> HAVE row.user = u
    <2>1. n + 1 \in VisitsOf(more, u)
      BY <1>2
    <2> HIDE DEF more
    <2>2. new[n + 1] = more[n + 1].gained
      BY <2>1 DEF Gains
    <2>3. row.gained \in Int
      BY DEF Visit
    <2> QED
      BY <1>1, <2>2, <2>3
  <1> HIDE DEF more, old, new, S
  <1>7. Summable(old, S) /\ SumOver(new, S) = SumOver(old, S)
    BY <1>3, <1>5, SumSame DEF Summable
  <1>8. SumOver(old, S) \in Int
    BY <1>7, SumType
  <1>9. CASE row.user = u
    <2>1. n + 1 \notin S /\ VisitsOf(more, u) = S \cup {n + 1}
      BY <1>1, <1>2, <1>3, <1>9
    <2>2. Summable(new, S \cup {n + 1})
      <3>1. IsFiniteSet(S \cup {n + 1})
        BY <1>3, FS_AddElement
      <3>2. \A i \in S \cup {n + 1} : new[i] \in Int
        <4>1. \A i \in S : new[i] \in Int
          BY <1>5
        <4>2. new[n + 1] \in Int
          BY <1>6, <1>9
        <4> HIDE DEF n
        <4> QED
          BY ONLY <4>1, <4>2
      <3> QED
        BY <3>1, <3>2 DEF Summable
    <2> DEFINE x == n + 1
    <2>3. SumOver(new, S \cup {n + 1}) = SumOver(new, S) + new[n + 1]
      <3>1. x \notin S /\ Summable(new, S \cup {x})
        BY <2>1, <2>2
      <3> HIDE DEF x
      <3>2. SumOver(new, S \cup {x}) = SumOver(new, S) + new[x]
        BY <3>1, SumAdd
      <3> QED
        BY <3>2 DEF x
    <2>4. Total(new) = Total(old) + row.gained /\ Total(old) \in Int
      BY <1>4, <1>6, <1>7, <1>8, <1>9, <2>1, <2>3, TotalIs
    <2> QED
      BY <1>1, <1>9, <2>4 DEF more, old, new
  <1>10. CASE row.user # u
    <2>1. Total(new) = Total(old) /\ Total(old) \in Int
      BY <1>2, <1>4, <1>7, <1>8, <1>10, TotalIs
    <2>2. Total(new) = Total(old) + 0
      BY <2>1
    <2> QED
      BY <1>1, <1>10, <2>1, <2>2 DEF more, old, new
  <1> QED
    BY <1>9, <1>10

-------------------------------------------------------------------------------
(* Every step keeps it.                                                    *)

(* A step that neither visits nor pays.                                    *)
LEMMA NoRowKeeps ==
    ASSUME AttendanceInv, UNCHANGED <<visits, exp>>, open' \subseteq Arcades, hour' \in 0..EndOfTime,
           auto' \in [Visitors -> Land], arrival' \in [Arrivals -> Arriving]
    PROVE  AttendanceInv'
  <1>1. AttendanceTypeOK' /\ VisitRows(visits')
    BY DEF AttendanceInv, AttendanceTypeOK, VisitRows, Land
  <1>2. OnceADay' /\ LedgerStands'
    <2>1. OnceADay /\ LedgerStands /\ visits' = visits /\ exp' = exp
      BY DEF AttendanceInv
    <2>2. OnceADay'
      BY ONLY <2>1 DEF OnceADay
    <2>3. LedgerStands'
      BY ONLY <2>1 DEF LedgerStands, Gains, CheckIns, VisitsOf
    <2> QED
      BY <2>2, <2>3
  <1> QED
    BY <1>1, <1>2 DEF AttendanceInv

LEMMA NoRowSteps ==
    ASSUME AttendanceInv, NEW r \in Arrivals,
           \/ \E u \in Visitors : ReadProfile(r, u)
           \/ RankCountries(r) \/ SaveCountry(r)
           \/ \E u \in Visitors, a \in Arcades : Arrive(r, u, a)
    PROVE  AttendanceInv'
  <1>1. /\ open \subseteq Arcades /\ hour \in 0..EndOfTime /\ auto \in [Visitors -> Land]
        /\ arrival \in [Arrivals -> Arriving] /\ hour \in Nat
    BY DEF AttendanceInv, AttendanceTypeOK, Land
  <1>2. ASSUME NEW q \in Arriving, UNCHANGED <<open, visits, auto, exp, hour>>, arrival' = [arrival EXCEPT ![r] = q]
        PROVE  AttendanceInv'
    <2>1. arrival' \in [Arrivals -> Arriving]
      BY <1>1, <1>2
    <2> QED
      BY <1>1, <1>2, <2>1, NoRowKeeps
  <1>3. ASSUME NEW u \in Visitors, ReadProfile(r, u) PROVE AttendanceInv'
    <2>1. [step |-> "read", user |-> u, old |-> auto[u]] \in Arriving
      BY <1>1 DEF Arriving
    <2> QED
      BY <1>2, <1>3, <2>1 DEF ReadProfile
  <1>4. CASE RankCountries(r)
    <2>1. arrival[r].step = "read" /\ arrival[r] \in Arriving
      BY <1>1, <1>4 DEF RankCountries
    <2>2. arrival[r].user \in Visitors /\ arrival[r].old \in Land
      BY <2>1 DEF Arriving, Away
    <2>3. TopVisitedCountry(visits, arrival[r].user) \in Land
      BY TopIs DEF AttendanceInv, Land
    <2> DEFINE q == [step |-> "ranked", user |-> arrival[r].user, old |-> arrival[r].old,
                     new |-> TopVisitedCountry(visits, arrival[r].user)]
    <2>4. q \in Arriving
      BY <2>2, <2>3 DEF Arriving
    <2>5. arrival' = [arrival EXCEPT ![r] = q] /\ UNCHANGED <<open, visits, auto, exp, hour>>
      BY <1>1, <1>4 DEF RankCountries
    <2> HIDE DEF q
    <2> QED
      BY <1>2, <2>4, <2>5
  <1>5. CASE SaveCountry(r)
    <2> DEFINE q == arrival[r]
    <2>1. q.step = "ranked" /\ q \in Arriving
      BY <1>1, <1>5 DEF SaveCountry
    <2>2. q.user \in Visitors /\ q.old \in Land /\ q.new \in Land
      BY <2>1 DEF Arriving, Away
    <2>3. auto' = [auto EXCEPT ![q.user] = Saved(@, q.old, q.new)]
      BY <1>5 DEF SaveCountry
    <2>4. auto' \in [Visitors -> Land]
      <3>1. Saved(auto[q.user], q.old, q.new) \in Land
        BY <1>1, <2>2 DEF Saved
      <3> HIDE DEF q
      <3> QED
        BY <1>1, <2>2, <2>3, <3>1
    <2>5. Away \in Arriving
      BY DEF Arriving
    <2>6. arrival' \in [Arrivals -> Arriving] /\ UNCHANGED <<open, visits, exp, hour>>
      BY <1>1, <1>5, <2>5 DEF SaveCountry
    <2> QED
      BY <1>1, <2>4, <2>6, NoRowKeeps
  <1>6. ASSUME NEW u \in Visitors, NEW a \in Arcades, Arrive(r, u, a) PROVE AttendanceInv'
    <2> DEFINE first == \A i \in VisitsOf(visits, u) : visits[i].arcade # a
               q == [step |-> "visit", user |-> u, arcade |-> a, at |-> hour, day |-> LocalDay(a, hour), first |-> first]
    <2>1. LocalDay(a, hour) \in Nat
      <3>1. hour + Shift[a] \in Nat
        BY <1>1
      <3> QED
        BY <3>1 DEF LocalDay
    <2>2. first \in BOOLEAN
      OBVIOUS
    <2> HIDE DEF first
    <2>3. q \in Arriving
      BY <1>1, <1>6, <2>1, <2>2 DEF Arriving, Arrive
    <2>4. arrival' = [arrival EXCEPT ![r] = q] /\ UNCHANGED <<open, visits, auto, exp, hour>>
      BY <1>6 DEF Arrive, first
    <2> HIDE DEF q
    <2> QED
      BY <1>2, <2>3, <2>4
  <1> QED
    BY <1>3, <1>4, <1>5, <1>6

(* The row a visit makes.                                                  *)
VisitRow(q) == [user |-> q.user, arcade |-> q.arcade, at |-> q.at, day |-> q.day, gained |-> VisitGain(q)]

(* A visit that is a row is the first of its day, pays by whether it is    *)
(* the first at all, and is paid.                                          *)
LEMMA VisitKeeps ==
    ASSUME AttendanceInv, NEW r \in Arrivals, VisitArcade(r)
    PROVE  AttendanceInv'
  <1> DEFINE q == arrival[r]
             row == VisitRow(q)
             n == Len(visits)
  <1>1. /\ open \subseteq Arcades /\ hour \in 0..EndOfTime /\ auto \in [Visitors -> Land]
        /\ arrival \in [Arrivals -> Arriving] /\ visits \in Seq(Visit) /\ VisitRows(visits)
    BY DEF AttendanceInv, AttendanceTypeOK, Land
  <1>2. q.step = "visit" /\ q \in Arriving
    BY <1>1 DEF VisitArcade
  <1>3. q.user \in Visitors /\ q.arcade \in Arcades /\ Where[q.arcade] \in Int /\ q.at \in Nat /\ q.day \in Nat
    BY <1>2 DEF Arriving, Away
  <1>4. open' = open /\ hour' = hour /\ arrival' \in [Arrivals -> Arriving]
    BY <1>1 DEF VisitArcade, Arriving
  <1>5. CASE VisitedOn(q.user, q.arcade, q.day)
    <2>1. UNCHANGED <<visits, auto, exp>>
      BY <1>5 DEF VisitArcade
    <2> QED
      BY <1>1, <1>4, <2>1, NoRowKeeps
  <1>6. CASE ~VisitedOn(q.user, q.arcade, q.day)
    <2>1. /\ visits' = Append(visits, row)
          /\ exp' = Award(exp, q.user, <<"visit", Len(visits')>>, row.gained, hour)
          /\ auto' = [auto EXCEPT ![q.user] = TopVisitedCountry(visits', q.user)]
      BY <1>6, Zenon DEF VisitArcade, VisitRow
    <2>2. row \in Visit /\ row.user = q.user /\ row.arcade = q.arcade /\ row.day = q.day /\ row.gained = VisitGain(q)
      BY <1>3 DEF VisitRow, Visit, VisitGain
    <2> HIDE DEF row, q
    <2>3. /\ visits' \in Seq(Visit) /\ Len(visits') = n + 1 /\ DOMAIN visits' = DOMAIN visits \cup {n + 1}
          /\ visits'[n + 1] = row /\ \A i \in DOMAIN visits : visits'[i] = visits[i]
          /\ DOMAIN visits = 1..n /\ n + 1 \notin DOMAIN visits /\ n \in Nat
      BY <1>1, <2>1, <2>2, OneMoreVisit
    <2> HIDE DEF n
    <2>4. VisitRows(visits')
      <3>1. \A i \in DOMAIN visits' : Where[visits'[i].arcade] \in Int
        BY <1>1, <1>3, <2>2, <2>3 DEF VisitRows
      <3> QED
        BY <2>3, <3>1 DEF VisitRows
    <2>5. AttendanceTypeOK'
      <3>1. auto' \in [Visitors -> Land]
        <4>1. TopVisitedCountry(visits', q.user) \in Land
          BY <2>4, TopIs DEF Land
        <4> QED
          BY <1>1, <1>3, <2>1, <4>1
      <3> QED
        BY <1>1, <1>4, <2>3, <3>1 DEF AttendanceTypeOK, Land
    <2>6. OnceADay'
      <3>1. ASSUME NEW i \in DOMAIN visits, visits[i].user = row.user, visits[i].arcade = row.arcade
            PROVE  visits[i].day # row.day /\ row.gained = 2
        <4>1. i \in VisitsOf(visits, q.user) /\ visits[i].arcade = q.arcade
          BY <2>2, <3>1 DEF VisitsOf
        <4> QED
          BY <1>6, <2>2, <4>1 DEF VisitedOn, VisitGain, FirstVisit
      <3>2. OnceADay
        BY DEF AttendanceInv
      <3> SUFFICES ASSUME NEW i \in DOMAIN visits', NEW j \in DOMAIN visits', i # j,
                          visits'[i].user = visits'[j].user, visits'[i].arcade = visits'[j].arcade
                   PROVE  /\ visits'[i].day # visits'[j].day
                          /\ visits'[i].gained = 2 \/ visits'[j].gained = 2
        BY DEF OnceADay
      <3>3. CASE i \in DOMAIN visits /\ j \in DOMAIN visits
        <4>1. visits'[i] = visits[i] /\ visits'[j] = visits[j]
          BY <2>3, <3>3
        <4> QED
          BY <3>2, <3>3, <4>1 DEF OnceADay
      <3>4. CASE i \in DOMAIN visits /\ j = n + 1
        BY <2>3, <3>1, <3>4
      <3>5. CASE i = n + 1 /\ j \in DOMAIN visits
        BY <2>3, <3>1, <3>5
      <3> QED
        BY <2>3, <3>3, <3>4, <3>5
    <2>7. LedgerStands'
      <3> DEFINE kind == <<"visit", n + 1>>
                 pay == LedgerRow(q.user, kind, row.gained, hour)
      <3>1. /\ exp.exp \in [Users -> Int] /\ IsFiniteSet(exp.log)
            /\ \A e \in exp.log : e.kind[1] = "visit" => e.kind[2] \in 1..n
            /\ \A u \in Visitors : exp.exp[u] = Total(Gains(visits, u)) + Cardinality(CheckIns(exp, u))
        BY DEF AttendanceInv, LedgerStands, n
      <3>2. row.gained \in Int /\ row.gained # 0 /\ q.user \in Named /\ q.user \in Users
        BY <1>3, <2>2, NamedAssumption DEF VisitGain
      <3>3. ~Has(exp, q.user, kind)
        <4>1. kind[1] = "visit" /\ kind[2] = n + 1 /\ n + 1 \notin 1..n
          BY <2>3
        <4> QED
          BY <3>1, <4>1 DEF Has
      <3>4. Pays(exp, exp', pay)
        BY <2>1, <2>3, <3>2, <3>3, AwardRow
      <3>5. pay.user = q.user /\ pay.kind = kind /\ pay.diff = row.gained
        BY DEF LedgerRow
      <3>6. kind[1] = "visit" /\ kind[2] = n + 1
        OBVIOUS
      <3> HIDE DEF pay, kind
      <3>7. exp'.log = exp.log \cup {pay} /\ exp'.exp = [exp.exp EXCEPT ![q.user] = @ + row.gained]
        BY <3>4, <3>5 DEF Pays
      <3>8. exp'.exp \in [Users -> Int] /\ IsFiniteSet(exp'.log)
        <4>1. IsFiniteSet(exp'.log)
          BY <3>1, <3>7, FS_AddElement
        <4> QED
          BY <3>1, <3>2, <3>7, <4>1
      <3>9. \A e \in exp'.log : e.kind[1] = "visit" => e.kind[2] \in 1..Len(visits')
        <4>1. 1..n \subseteq 1..Len(visits') /\ n + 1 \in 1..Len(visits')
          BY <2>3
        <4> QED
          BY <3>1, <3>5, <3>6, <3>7, <4>1
      <3>10. ASSUME NEW u \in Visitors
             PROVE  exp'.exp[u] = Total(Gains(visits', u)) + Cardinality(CheckIns(exp', u))
        <4>1. CheckIns(exp', u) = CheckIns(exp, u)
          BY <3>5, <3>6, <3>7 DEF CheckIns
        <4>2. /\ Total(Gains(visits', u)) = Total(Gains(visits, u)) + (IF row.user = u THEN row.gained ELSE 0)
              /\ Total(Gains(visits, u)) \in Int
          BY <1>1, <2>1, <2>2, OneMoreVisit
        <4>3. exp'.exp[u] = IF q.user = u THEN exp.exp[u] + row.gained ELSE exp.exp[u]
          <5>1. u \in Users
            BY NamedAssumption
          <5> QED
            BY <3>1, <3>7, <5>1
        <4>4. Cardinality(CheckIns(exp, u)) \in Int
          <5>1. CheckIns(exp, u) \in SUBSET exp.log
            BY DEF CheckIns
          <5>2. IsFiniteSet(CheckIns(exp, u))
            BY <3>1, <5>1, FS_Subset
          <5> QED
            BY <5>2, FS_CardinalityType
        <4>5. exp.exp[u] = Total(Gains(visits, u)) + Cardinality(CheckIns(exp, u))
          BY <3>1
        <4> DEFINE t == Total(Gains(visits, u))
                   c == Cardinality(CheckIns(exp, u))
        <4>6. t \in Int /\ c \in Int /\ exp.exp[u] = t + c
          BY <4>2, <4>4, <4>5
        <4>7. Total(Gains(visits', u)) = t + (IF q.user = u THEN row.gained ELSE 0)
              /\ Cardinality(CheckIns(exp', u)) = c
          BY <2>2, <4>1, <4>2
        <4> HIDE DEF t, c
        <4> QED
          BY <3>2, <4>3, <4>6, <4>7
      <3> QED
        BY <3>8, <3>9, <3>10, Zenon DEF LedgerStands
    <2> QED
      BY <1>4, <2>4, <2>5, <2>6, <2>7 DEF AttendanceInv
  <1> QED
    BY <1>5, <1>6

(* A check-in is one row and one point.                                    *)
LEMMA CheckInKeeps ==
    ASSUME AttendanceInv, NEW u \in Visitors, CheckIn(u)
    PROVE  AttendanceInv'
  <1> DEFINE kind == <<"check_in", KSTDay(hour)>>
             row == LedgerRow(u, kind, 1, hour)
  <1>1. exp' = Award(exp, u, kind, 1, hour) /\ exp' # exp /\ UNCHANGED <<open, visits, auto, arrival, hour>>
    BY DEF CheckIn
  <1>2. kind[1] = "check_in" /\ kind[1] # "visit" /\ row.user = u /\ row.kind = kind /\ row.diff = 1
    BY DEF LedgerRow
  <1>3. Pays(exp, exp', row)
    BY <1>1, AwardRow
  <1> HIDE DEF kind, row
  <1>4. row \notin exp.log /\ exp'.log = exp.log \cup {row} /\ exp'.exp = [exp.exp EXCEPT ![u] = @ + 1]
    BY <1>2, <1>3 DEF Pays
  <1>5. /\ exp.exp \in [Users -> Int] /\ IsFiniteSet(exp.log) /\ u \in Users
        /\ \A e \in exp.log : e.kind[1] = "visit" => e.kind[2] \in 1..Len(visits)
        /\ \A v \in Visitors : exp.exp[v] = Total(Gains(visits, v)) + Cardinality(CheckIns(exp, v))
    BY NamedAssumption DEF AttendanceInv, LedgerStands
  <1>6. exp'.exp \in [Users -> Int] /\ IsFiniteSet(exp'.log)
    <2>1. IsFiniteSet(exp.log)
      BY <1>5
    <2>2. IsFiniteSet(exp.log \cup {row})
      BY <2>1, FS_AddElement
    <2> QED
      BY <1>4, <1>5, <2>2
  <1>7. \A e \in exp'.log : e.kind[1] = "visit" => e.kind[2] \in 1..Len(visits)
    BY <1>2, <1>4, <1>5
  <1>8. ASSUME NEW v \in Visitors
        PROVE  exp'.exp[v] = Total(Gains(visits, v)) + Cardinality(CheckIns(exp', v))
    <2>1. /\ CheckIns(exp', v) = IF v = u THEN CheckIns(exp, v) \cup {row} ELSE CheckIns(exp, v)
          /\ row \notin CheckIns(exp, v)
      BY <1>2, <1>4 DEF CheckIns
    <2>2. IsFiniteSet(CheckIns(exp, v))
      <3>1. CheckIns(exp, v) \in SUBSET exp.log
        BY DEF CheckIns
      <3> QED
        BY <1>5, <3>1, FS_Subset
    <2> DEFINE c == Cardinality(CheckIns(exp, v))
               t == Total(Gains(visits, v))
    <2>3. c \in Int /\ Cardinality(CheckIns(exp', v)) = IF v = u THEN c + 1 ELSE c
      <3>1. c \in Int
        BY <2>2, FS_CardinalityType
      <3>2. Cardinality(CheckIns(exp, v) \cup {row}) = c + 1
        BY <2>1, <2>2, FS_AddElement
      <3> HIDE DEF c
      <3> QED
        BY <2>1, <3>1, <3>2 DEF c
    <2>4. t \in Int
      BY GainsType DEF AttendanceInv, AttendanceTypeOK
    <2>5. exp'.exp[v] = IF v = u THEN exp.exp[v] + 1 ELSE exp.exp[v]
      <3>1. v \in Users
        BY NamedAssumption
      <3> QED
        BY <1>4, <1>5, <3>1
    <2>6. exp.exp[v] = t + c
      BY <1>5
    <2> HIDE DEF t, c
    <2>7. exp'.exp[v] = t + Cardinality(CheckIns(exp', v))
      BY <2>3, <2>4, <2>5, <2>6
    <2> QED
      BY <2>7 DEF t
  <1>9. LedgerStands'
    BY <1>1, <1>6, <1>7, <1>8, Zenon DEF LedgerStands
  <1>10. AttendanceTypeOK' /\ VisitRows(visits') /\ arrival' \in [Arrivals -> Arriving] /\ OnceADay'
    <2>1. UNCHANGED <<open, visits, auto, arrival, hour>>
      BY <1>1
    <2>2. AttendanceTypeOK /\ VisitRows(visits) /\ arrival \in [Arrivals -> Arriving] /\ OnceADay
      BY DEF AttendanceInv
    <2> QED
      BY ONLY <2>1, <2>2 DEF AttendanceTypeOK, VisitRows, OnceADay
  <1> QED
    BY <1>9, <1>10 DEF AttendanceInv

LEMMA AttendanceStep == AttendanceInv /\ [AttendanceNext]_attendanceVars => AttendanceInv'
  <1> SUFFICES ASSUME AttendanceInv, [AttendanceNext]_attendanceVars PROVE AttendanceInv'
    OBVIOUS
  <1>0. /\ open \subseteq Arcades /\ hour \in 0..EndOfTime /\ auto \in [Visitors -> Land]
        /\ arrival \in [Arrivals -> Arriving]
    BY DEF AttendanceInv, AttendanceTypeOK, Land
  <1>1. ASSUME NEW r \in Arrivals, NEW u \in Visitors, ReadProfile(r, u) PROVE AttendanceInv'
    BY <1>1, NoRowSteps
  <1>2. ASSUME NEW r \in Arrivals, RankCountries(r) PROVE AttendanceInv'
    BY <1>2, NoRowSteps
  <1>3. ASSUME NEW r \in Arrivals, SaveCountry(r) PROVE AttendanceInv'
    BY <1>3, NoRowSteps
  <1>4. ASSUME NEW r \in Arrivals, NEW u \in Visitors, NEW a \in Arcades, Arrive(r, u, a) PROVE AttendanceInv'
    BY <1>4, NoRowSteps
  <1>5. ASSUME NEW r \in Arrivals, VisitArcade(r) PROVE AttendanceInv'
    BY <1>5, VisitKeeps
  <1>6. ASSUME NEW u \in Visitors, CheckIn(u) PROVE AttendanceInv'
    BY <1>6, CheckInKeeps
  <1>7. ASSUME NEW a \in Arcades, SetVisible(a) PROVE AttendanceInv'
    <2>1. open' \subseteq Arcades /\ UNCHANGED <<visits, auto, arrival, exp, hour>>
      BY <1>0, <1>7 DEF SetVisible
    <2> QED
      BY <1>0, <2>1, NoRowKeeps
  <1>8. CASE Pass
    <2>1. hour' \in 0..EndOfTime /\ UNCHANGED <<open, visits, auto, arrival, exp>>
      BY <1>0, <1>8 DEF Pass
    <2> QED
      BY <1>0, <2>1, NoRowKeeps
  <1>9. CASE UNCHANGED attendanceVars
    <2>1. UNCHANGED <<open, visits, auto, arrival, exp, hour>>
      BY <1>9 DEF attendanceVars
    <2> QED
      BY <1>0, <2>1, NoRowKeeps
  <1> QED
    BY <1>1, <1>2, <1>3, <1>4, <1>5, <1>6, <1>7, <1>8, <1>9, Zenon DEF AttendanceNext

(* The inductive invariant of visits and check-ins (VisitArcade, CheckIn,  *)
(* UpdateCountries).                                                       *)
THEOREM AttendanceKeeps == AttendanceSpec => []AttendanceInv
  <1>1. AttendanceInit => AttendanceInv
    BY AttendanceBegins
  <1>2. AttendanceInv /\ [AttendanceNext]_attendanceVars => AttendanceInv'
    BY AttendanceStep
  <1> QED
    BY <1>1, <1>2, PTL DEF AttendanceSpec

(* Whatever requests cross midnight or each other: visits, the experience  *)
(* they bring and the passport agree (VisitArcade, LoadPassport).          *)
THEOREM VisitsHold == AttendanceSpec => []VisitsAddUp
  <1>1. ASSUME AttendanceInv PROVE VisitsAddUp
    <2>1. VisitsPaidOnce
      BY <1>1 DEF AttendanceInv, LedgerStands, OnceADay, VisitsPaidOnce, Gains, CheckIns
    <2>2. ASSUME NEW u \in Visitors PROVE AddsUp(Stamped(u))
      BY <1>1, StampedIs, RowsAddUp DEF AttendanceInv
    <2>3. AttendanceTypeOK
      BY <1>1 DEF AttendanceInv
    <2> QED
      BY <2>1, <2>2, <2>3 DEF VisitsAddUp, PassportAddsUp
  <1>2. AttendanceInv => VisitsAddUp
    BY <1>1
  <1> QED
    BY <1>2, AttendanceKeeps, PTL
===============================================================================
