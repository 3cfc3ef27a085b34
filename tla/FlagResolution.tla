---------------------------- MODULE FlagResolution ----------------------------
(***************************************************************************)
(* Fault reports (flags) of one arcade, their reactions, and how they come *)
(* to be solved: handlers/arcade/flag and internal/flag_resolution.go.     *)
(*                                                                         *)
(* Every handler and cron job is one transaction, but it reads the clock   *)
(* before the database lets it in: "now" is any moment of the last Lag     *)
(* ticks.  The hook that looks at a flag after a reaction runs in a        *)
(* transaction of its own, later or (after a crash) never.                 *)
(***************************************************************************)
EXTENDS XpLedger

CONSTANTS
    Flags,              \* arcade_flag records
    Owner,              \* who created the arcade
    Staff,              \* developers and moderators
    Officials,          \* official accounts that own the arcade
    InitialExp,         \* InitialExp[u]: experience earned elsewhere
    Delay,              \* Delay[t]: FlagResolutionDelay from score t on
    StaleAge,           \* StaleResolutionAge
    StaleWindow,        \* the 72 hours of a stale resolution
    DeleteWindow,       \* flagDeleteWindow, reactionDeleteWindow
    Cooldown,           \* issuePersistCooldown
    Lag,                \* a transaction starts at most so long after its clock was read
    \* bounds of the model, none of the code:
    MaxTime,            \* the clock stops here
    LastRequest,        \* users are active until then
    MaxReactions,       \* reactions ever made
    Latency,            \* time a cron job may be late
    Changes             \* changes to the arcade itself: of publish, unpublish, redirect

Tiers == {0, 5, 10, 20, 30}

ASSUME UsersAssumption ==
    /\ {Owner} \cup Staff \cup Officials \subseteq Users
    /\ InitialExp \in [Users -> Nat]
ASSUME TimesAssumption ==
    /\ Delay \in [Tiers -> Nat]
    /\ \A s, t \in Tiers : s <= t => Delay[t] <= Delay[s]
    /\ StaleAge \in Nat /\ DeleteWindow \in Nat /\ Cooldown \in Nat
    /\ StaleWindow \in Nat /\ StaleWindow >= Delay[30]
    /\ Lag \in Nat
    /\ MaxTime \in Nat /\ LastRequest \in Nat /\ MaxReactions \in Nat /\ Latency \in Nat

VARIABLES
    clock,      \* time.Now()
    arcade,     \* the arcade record: public, and whether reports go elsewhere
    flag,       \* arcade_flag
    reactions,  \* arcade_flag_reaction
    issued,     \* reactions ever made: the next one is issued + 1
    hooks,      \* flags the after-create hook has still to look at
    xp          \* the experience ledger

vars == <<clock, arcade, flag, reactions, issued, hooks, xp>>

NoTime   == -1
Managers == Staff \cup Officials

Flag == [status    : {"absent", "open", "solved", "deleted"},
         state     : {"idle", "active"},            \* resolution_vote_state
         mode      : {"standard", "stale"},         \* resolution_vote_mode
         round     : Nat,                           \* resolution_vote_round, 0 before the first
         resolveAt : Nat \cup {NoTime},             \* resolution_vote_resolve_at
         created   : Nat,
         updated   : Nat,
         by        : Users]

Reaction == [id : 1..MaxReactions, flag : Flags, by : Users,
             reaction : {"fixed", "wrong", "issue_persist"},
             round : Nat, level : Nat, created : Nat]

NoFlag == [status |-> "absent", state |-> "idle", mode |-> "standard", round |-> 0,
           resolveAt |-> NoTime, created |-> 0, updated |-> 0, by |-> Owner]

Init ==
    /\ clock = 0
    /\ arcade \in [public : BOOLEAN, external : {FALSE}]
    /\ flag = [f \in Flags |-> NoFlag]
    /\ reactions = {}
    /\ issued = 0
    /\ hooks = {}
    /\ xp = [exp |-> InitialExp, log |-> {}]

Nows == {t \in 0..clock : t >= clock - Lag}

-------------------------------------------------------------------------------
(* internal/flag_resolution.go: a flag and what becomes of it.             *)

(* FindCurrentFlagVotes.                                                   *)
Votes(R, f, round) ==
    {v \in R : v.flag = f /\ v.round = round /\ v.reaction \in {"fixed", "wrong"}}

Score(V) == MapThenSumSet(LAMBDA v : IF v.reaction = "fixed" THEN v.level ELSE -v.level, V)

FlagResolutionDelay(score) ==
    CASE score >= 30 -> Delay[30]
      [] score >= 20 /\ score < 30 -> Delay[20]
      [] score >= 10 /\ score < 20 -> Delay[10]
      [] score >= 5 /\ score < 10 -> Delay[5]
      [] OTHER -> Delay[0]

Supported(V) == (\E v \in V : v.reaction = "fixed") /\ Score(V) >= 0

Solved(r) == [r EXCEPT !.status = "solved", !.state = "idle", !.resolveAt = NoTime]

(* Mutant: a closed round keeps its deadline.                              *)
Closed_KeepsDeadline(r) == [r EXCEPT !.state = "idle", !.mode = "standard"]

Closed(r) == [r EXCEPT !.state = "idle", !.mode = "standard", !.resolveAt = NoTime]

Started(r) ==
    [r EXCEPT !.state = "active", !.mode = "standard", !.round = @ + 1, !.resolveAt = NoTime]

(* Mutant: a stale window without an end.                                  *)
StartedStale_Endless(r, now) ==
    [r EXCEPT !.state = "active", !.mode = "stale", !.round = @ + 1, !.resolveAt = NoTime]

StartedStale(r, now) ==
    [r EXCEPT !.state = "active", !.mode = "stale", !.round = @ + 1,
              !.resolveAt = now + StaleWindow]

Due(r, now) == r.state = "active" /\ r.resolveAt # NoTime /\ now >= r.resolveAt

(* Mutants: a vote never moves the deadline; a vote always sets it anew.   *)
Hastened_Once(r, candidate, reset) ==
    IF r.resolveAt = NoTime THEN [r EXCEPT !.resolveAt = candidate] ELSE r
Hastened_Always(r, candidate, reset) ==
    IF r.resolveAt = NoTime \/ reset THEN [r EXCEPT !.resolveAt = candidate] ELSE r

Hastened(r, candidate, reset) ==
    IF r.resolveAt = NoTime \/ (reset /\ candidate < r.resolveAt)
      THEN [r EXCEPT !.resolveAt = candidate]
      ELSE r

(* ReconcileFlagResolutionTx.                                              *)
Reconciled(r, R, f, now, reset) ==
    LET V == Votes(R, f, r.round)
        candidate == now + FlagResolutionDelay(Score(V)) IN
    IF r.status # "open" \/ r.state # "active" THEN r
    ELSE IF Due(r, now) THEN Solved(r)
    ELSE IF r.mode = "stale" /\ V = {} THEN r
    ELSE IF ~Supported(V) THEN Closed(r)
    ELSE Hastened(r, candidate, reset)

(* Saving a record stamps it.                                              *)
Touched(r) == [r EXCEPT !.updated = clock]
Saved(old, new) == IF new = old THEN old ELSE Touched(new)

-------------------------------------------------------------------------------
(* flag/create.go, flag/delete.go                                          *)

CanWrite(u) == arcade.public \/ u = Owner \/ u \in Staff

CreateFlag(u, f) ==
    /\ flag[f].status = "absent"
    /\ ~arcade.external /\ CanWrite(u)
    /\ flag' = [flag EXCEPT ![f] = [NoFlag EXCEPT !.status = "open", !.created = clock,
                                                  !.updated = clock, !.by = u]]
    /\ xp' = IF arcade.public THEN Award(xp, u, <<"flag", f>>, 5, clock) ELSE xp
    /\ UNCHANGED <<clock, arcade, reactions, issued, hooks>>

(* The reactions of a deleted flag go with it.                             *)
DeleteFlag(u, f, now) ==
    /\ flag[f].status = "open" /\ flag[f].by = u
    /\ now - flag[f].created <= DeleteWindow
    /\ flag' = [flag EXCEPT ![f] = [NoFlag EXCEPT !.status = "deleted"]]
    /\ reactions' = {v \in reactions : v.flag # f}
    /\ xp' = IF arcade.public /\ Has(xp, u, <<"flag", f>>)
               THEN Award(xp, u, <<"flag-delete", f>>, -5, clock)
               ELSE xp
    /\ UNCHANGED <<clock, arcade, issued, hooks>>

-------------------------------------------------------------------------------
(* flag/reaction.go                                                        *)

ReactionExp(reaction) ==
    CASE reaction = "issue_persist" -> 2 [] reaction = "fixed" -> 3 [] OTHER -> 0

(* createFlagReactionTx and its award.                                     *)
NewReaction(u, f, reaction, round, level) ==
    [id |-> issued + 1, flag |-> f, by |-> u, reaction |-> reaction,
     round |-> round, level |-> level, created |-> clock]

Rewarded(x, v) ==
    IF arcade.public
      THEN Award(x, v.by, <<"reaction", v.id>>, ReactionExp(v.reaction), clock)
      ELSE x

(* Mutant: only in public arcades.                                         *)
Reversed_WhenPublic(x, v) ==
    IF arcade.public /\ Has(x, v.by, <<"reaction", v.id>>)
      THEN Award(x, v.by, <<"reaction-delete", v.id>>, -ReactionExp(v.reaction), clock)
      ELSE x

(* removeReactionRecordTx takes back what was granted for the reaction.    *)
Reversed(x, v) ==
    IF Has(x, v.by, <<"reaction", v.id>>)
      THEN LET grant == CHOOSE e \in x.log : e.user = v.by /\ e.kind = <<"reaction", v.id>> IN
           Award(x, v.by, <<"reaction-delete", v.id>>, -grant.diff, clock)
      ELSE x

(* What UpdateArcadeFlagReaction makes sure of before it changes anything. *)
Reacts(u, f, r) ==
    /\ flag[f].status = "open" /\ r.status = "open"
    /\ ~arcade.external /\ CanWrite(u)

Report(u, f, now) ==
    LET r == Reconciled(flag[f], reactions, f, now, FALSE)
        v == NewReaction(u, f, "issue_persist", 0, 0) IN
    /\ issued < MaxReactions
    /\ Reacts(u, f, r)
    /\ r.state = "idle"
    /\ \A w \in reactions : w.flag = f /\ w.by = u /\ w.reaction = "issue_persist" =>
         now - w.created >= Cooldown
    /\ reactions' = reactions \cup {v}
    /\ issued' = issued + 1
    /\ hooks' = hooks \cup {f}
    /\ xp' = Rewarded(xp, v)
    /\ flag' = [flag EXCEPT ![f] = Touched(r)]
    /\ UNCHANGED <<clock, arcade>>

(* Mutant: the vote of another round.                                      *)
CurrentVote_OtherRound(u, f, round) ==
    {v \in Votes(reactions, f, round + 1) : v.by = u}

(* findCurrentUserVote: at most one vote.                                  *)
CurrentVote(u, f, round) == {v \in Votes(reactions, f, round) : v.by = u}

Vote(u, f, reaction, now) ==
    LET r0  == Reconciled(flag[f], reactions, f, now, FALSE)
        r1  == IF r0.state = "active" THEN r0 ELSE Started(r0)
        old == CurrentVote(u, f, r1.round)
        x1  == IF old = {} THEN xp ELSE Reversed(xp, CHOOSE v \in old : TRUE)
        r2  == [r1 EXCEPT !.mode = "standard"]
        v   == NewReaction(u, f, reaction, r1.round, LevelFromExp(x1.exp[u]))
        R   == (reactions \ old) \cup {v} IN
    /\ issued < MaxReactions
    /\ Reacts(u, f, r0)
    /\ reaction = "wrong" => r0.state = "active"
    /\ \A w \in old : w.reaction # reaction
    /\ reactions' = R
    /\ issued' = issued + 1
    /\ hooks' = hooks \cup {f}
    /\ xp' = Rewarded(x1, v)
    /\ flag' = [flag EXCEPT ![f] = Touched(IF reaction = "fixed" /\ u \in Managers
                                             THEN Solved(r2)
                                             ELSE Reconciled(r2, R, f, now, TRUE))]
    /\ UNCHANGED <<clock, arcade>>

(* The reaction a deletion is about: the latest report, or the vote of the *)
(* current (possibly closed) round.                                        *)
Deletable(u, f, reaction, round) ==
    {v \in reactions :
        /\ v.flag = f /\ v.by = u /\ v.reaction = reaction
        /\ IF reaction = "issue_persist"
             THEN \A w \in reactions : w.flag = f /\ w.by = u /\ w.reaction = reaction =>
                    w.created <= v.created
             ELSE v.round = round}

DeleteReaction(u, f, reaction, now) ==
    LET r == Reconciled(flag[f], reactions, f, now, FALSE) IN
    /\ Reacts(u, f, r)
    /\ \E v \in Deletable(u, f, reaction, r.round) :
         /\ now - v.created <= DeleteWindow
         /\ reactions' = reactions \ {v}
         /\ xp' = Reversed(xp, v)
    /\ flag' = [flag EXCEPT ![f] = Touched(IF reaction = "issue_persist" THEN r
                                             ELSE Reconciled(r, reactions', f, now, TRUE))]
    /\ UNCHANGED <<clock, arcade, issued, hooks>>

-------------------------------------------------------------------------------
(* flag/autosolve.go                                                       *)

AutoSolve(now) ==
    /\ flag' = [f \in Flags |-> Saved(flag[f], Reconciled(flag[f], reactions, f, now, FALSE))]
    /\ UNCHANGED <<clock, arcade, reactions, issued, hooks, xp>>

AutoSolveForFlag(f, now) ==
    /\ f \in hooks
    /\ hooks' = hooks \ {f}
    /\ flag' = [flag EXCEPT ![f] = Saved(flag[f], Reconciled(flag[f], reactions, f, now, FALSE))]
    /\ UNCHANGED <<clock, arcade, reactions, issued, xp>>

Stale(r, now) == r.status = "open" /\ r.state = "idle" /\ r.updated <= now - StaleAge

StaleSweep(now) ==
    /\ flag' = [f \in Flags |-> IF Stale(flag[f], now) THEN Touched(StartedStale(flag[f], now))
                                ELSE flag[f]]
    /\ UNCHANGED <<clock, arcade, reactions, issued, hooks, xp>>

-------------------------------------------------------------------------------
(* Around the flags: the arcade is published, its managers change where    *)
(* reports go, the process stops (only hooks are in memory), time passes.  *)

(* request_public.go: what the owner did in the draft is rewarded now.     *)
PublicBackfill(x) ==
    LET F == {f \in Flags : flag[f].status \in {"open", "solved"} /\ flag[f].by = Owner}
        R == {v \in reactions : v.by = Owner}
        Grant(k, y) == Award(y, Owner, k.kind, k.diff, clock) IN
    FoldSet(Grant, Award(x, Owner, <<"public">>, 5, clock),
            {[kind |-> <<"flag", f>>, diff |-> 5] : f \in F}
              \cup {[kind |-> <<"reaction", v.id>>, diff |-> ReactionExp(v.reaction)] : v \in R})

Publish ==
    /\ "publish" \in Changes /\ ~arcade.public
    /\ arcade' = [arcade EXCEPT !.public = TRUE]
    /\ xp' = PublicBackfill(xp)
    /\ UNCHANGED <<clock, flag, reactions, issued, hooks>>

Unpublish ==
    /\ "unpublish" \in Changes /\ arcade.public
    /\ arcade' = [arcade EXCEPT !.public = FALSE]
    /\ UNCHANGED <<clock, flag, reactions, issued, hooks, xp>>

Redirect(external) ==
    /\ "redirect" \in Changes /\ arcade.external # external
    /\ arcade' = [arcade EXCEPT !.external = external]
    /\ UNCHANGED <<clock, flag, reactions, issued, hooks, xp>>

Crash ==
    /\ hooks # {}
    /\ hooks' = {}
    /\ UNCHANGED <<clock, arcade, flag, reactions, issued, xp>>

(* With Latency < MaxTime the cron jobs keep up: time waits for them.      *)
Punctual ==
    \A f \in Flags :
        ~Due(flag[f], clock - Latency) /\ ~Stale(flag[f], clock - Latency)

Tick ==
    /\ clock < MaxTime
    /\ Punctual
    /\ clock' = clock + 1
    /\ UNCHANGED <<arcade, flag, reactions, issued, hooks, xp>>

Request ==
    /\ clock <= LastRequest
    /\ \/ \E u \in Users, f \in Flags :
            \/ CreateFlag(u, f)
            \/ \E now \in Nows :
                 \/ DeleteFlag(u, f, now)
                 \/ Report(u, f, now)
                 \/ \E reaction \in {"fixed", "wrong"} : Vote(u, f, reaction, now)
                 \/ \E reaction \in {"fixed", "wrong", "issue_persist"} :
                      DeleteReaction(u, f, reaction, now)
       \/ Publish
       \/ Unpublish
       \/ \E external \in BOOLEAN : Redirect(external)

Cron ==
    \/ \E now \in Nows : AutoSolve(now)
    \/ \E now \in Nows : StaleSweep(now)
    \/ \E now \in Nows, f \in Flags : AutoSolveForFlag(f, now)

Next == Request \/ Cron \/ Crash \/ Tick

Spec == Init /\ [][Next]_vars

(* The scheduler runs both jobs for ever and time passes; nobody has to    *)
(* vote, and a hook may never run.                                         *)
FairSpec ==
    /\ Spec
    /\ WF_vars(AutoSolve(clock))
    /\ WF_vars(StaleSweep(clock))
    /\ WF_vars(Tick)

-------------------------------------------------------------------------------
TypeOK ==
    /\ clock \in Nat
    /\ arcade \in [public : BOOLEAN, external : BOOLEAN]
    /\ flag \in [Flags -> Flag]
    /\ reactions \in SUBSET Reaction
    /\ issued \in 0..MaxReactions
    /\ hooks \in SUBSET Flags
    /\ xp.exp \in [Users -> Nat]

(* A user has one vote in a round, however often it was switched, taken    *)
(* back and given again.                                                   *)
OneVoteEach ==
    \A v, w \in reactions :
        /\ v.reaction \in {"fixed", "wrong"} /\ w.reaction \in {"fixed", "wrong"}
        /\ v.flag = w.flag /\ v.by = w.by /\ v.round = w.round
        => v = w

(* An open report in resolution has a deadline; while it has votes, a      *)
(* fixed vote and a score of at least zero stand behind it.  Otherwise it  *)
(* is a stale window nobody answered.                                      *)
ResolutionIsSupported ==
    \A f \in Flags :
        LET r == flag[f]
            V == Votes(reactions, f, r.round) IN
        IF r.state = "active"
          THEN /\ r.status = "open" /\ r.resolveAt # NoTime
               /\ IF r.mode = "stale" THEN V = {} ELSE Supported(V)
          ELSE r.resolveAt = NoTime

(* The deadline of a vote is never further away than its present score     *)
(* asks for: a better score brings it closer, whatever order votes came,   *)
(* were switched and were taken back in.                                   *)
DeadlineMeetsScore ==
    \A f \in Flags : flag[f].state = "active" /\ flag[f].mode = "standard" =>
        flag[f].resolveAt <=
            clock + FlagResolutionDelay(Score(Votes(reactions, f, flag[f].round)))

(* The total of a user is what the log says.                               *)
LedgerAddsUp == \A u \in Users : xp.exp[u] = InitialExp[u] + Earned(xp, u)

(* The grant for a reaction, if there was one, is gone with it.            *)
TakenBack(x, v) ==
    \A e \in x.log : e.kind = <<"reaction", v.id>> =>
        \E d \in x.log :
            d.user = e.user /\ d.diff = -e.diff /\ d.kind = <<"reaction-delete", v.id>>

(* A user who takes a reaction back, or switches a vote, keeps nothing of  *)
(* its reward, wherever the arcade is in its life by then.                 *)
ReversalIsExact ==
    [][\A v \in reactions \ reactions' :
         flag'[v.flag].status # "deleted" => TakenBack(xp', v)]_vars

(* Once solved a report does not change, nor what was said about it.       *)
SolvedIsFinal ==
    [][\A f \in Flags : flag[f].status = "solved" =>
         /\ flag'[f] = flag[f]
         /\ {v \in reactions' : v.flag = f} = {v \in reactions : v.flag = f}]_vars

(* However users voted, reported and withdrew before, every report is      *)
(* solved or withdrawn in the end.                                         *)
EventuallyResolved == <>[](\A f \in Flags : flag[f].status # "open")

-------------------------------------------------------------------------------
(* The flags as the people of the arcade see them.                         *)
FixedByManager(f) ==
    \E v \in reactions : v.flag = f /\ v.reaction = "fixed" /\ v.by \in Managers

Phase(f) ==
    LET r == flag[f] IN
    CASE r.status = "absent" -> "absent"
      [] r.status = "deleted" -> "withdrawn"
      [] r.status = "solved" -> IF FixedByManager(f) THEN "fixed" ELSE "expired"
      [] r.status = "open" -> IF r.state = "active" THEN "voting" ELSE "open"

Outcome == INSTANCE ReportOutcome
    WITH MinDelay <- Delay[30] - Lag, Never <- NoTime,
         phase <- [f \in Flags |-> Phase(f)],
         deadline <- [f \in Flags |-> flag[f].resolveAt]

OutcomeSpec == Outcome!OSpec
===============================================================================
