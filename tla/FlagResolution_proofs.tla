------------------------- MODULE FlagResolution_proofs -------------------------
(***************************************************************************)
(* Theorems about FlagResolution, for any users, reports, delays, windows  *)
(* and bounds that satisfy the assumptions.  Scores stay opaque: nothing   *)
(* below depends on how levels add up.  What the ledger says of users and  *)
(* their reactions is the last part, BooksInv.                             *)
(***************************************************************************)
EXTENDS FlagResolution, LedgerTheorems

USE UsersAssumption, TimesAssumption DEF UsersAssumption, TimesAssumption

(* The part of ResolutionIsSupported that is about one flag, and the       *)
(* weaker form that holds between a vote and its reconciliation.           *)
FlagSupported(r, R, f) ==
    IF r.state = "active"
      THEN /\ r.status = "open" /\ r.resolveAt # NoTime
           /\ IF r.mode = "stale" THEN Votes(R, f, r.round) = {}
              ELSE Supported(Votes(R, f, r.round))
      ELSE r.resolveAt = NoTime

BeforeReconciling(r, R, f) ==
    IF r.state = "active"
      THEN /\ r.status = "open"
           /\ r.mode = "stale" => r.resolveAt # NoTime /\ Votes(R, f, r.round) = {}
      ELSE r.resolveAt = NoTime

(* The same for DeadlineMeetsScore.                                        *)
MeetsScore(r, R, f, t) ==
    r.state = "active" /\ r.mode = "standard" =>
        r.resolveAt <= t + FlagResolutionDelay(Score(Votes(R, f, r.round)))

-------------------------------------------------------------------------------
(* A delay is one of the five, and the last is the shortest.               *)
LEMMA DelayType ==
    ASSUME NEW s
    PROVE  FlagResolutionDelay(s) \in Nat /\ FlagResolutionDelay(s) >= Delay[30]
  <1>1. FlagResolutionDelay(s) \in {Delay[0], Delay[5], Delay[10], Delay[20], Delay[30]}
    BY DEF FlagResolutionDelay
  <1>2. \A t \in Tiers : Delay[t] \in Nat /\ Delay[t] >= Delay[30]
    BY DEF Tiers
  <1> QED
    BY <1>1, <1>2 DEF Tiers

(* What each update of a flag does to its fields.                          *)
LEMMA SolvedFields ==
    ASSUME NEW r \in Flag
    PROVE  /\ Solved(r) \in Flag
           /\ Solved(r).status = "solved" /\ Solved(r).state = "idle"
           /\ Solved(r).resolveAt = NoTime /\ Solved(r).round = r.round
  BY DEF Solved, Flag, NoTime

LEMMA ClosedFields ==
    ASSUME NEW r \in Flag
    PROVE  /\ Closed(r) \in Flag
           /\ Closed(r).status = r.status /\ Closed(r).state = "idle"
           /\ Closed(r).resolveAt = NoTime /\ Closed(r).round = r.round
  BY DEF Closed, Flag, NoTime

LEMMA StartedFields ==
    ASSUME NEW r \in Flag
    PROVE  /\ Started(r) \in Flag
           /\ Started(r).status = r.status /\ Started(r).state = "active"
           /\ Started(r).mode = "standard" /\ Started(r).round = r.round + 1
           /\ Started(r).resolveAt = NoTime
  <1>1. r.round + 1 \in Nat /\ NoTime \in Nat \cup {NoTime}
    BY DEF Flag
  <1>2. Started(r) \in Flag
    BY <1>1, Zenon DEF Started, Flag
  <1> QED
    BY <1>2 DEF Started, Flag

LEMMA StartedStaleFields ==
    ASSUME NEW r \in Flag, NEW now \in Nat
    PROVE  /\ StartedStale(r, now) \in Flag
           /\ StartedStale(r, now).status = r.status /\ StartedStale(r, now).state = "active"
           /\ StartedStale(r, now).mode = "stale" /\ StartedStale(r, now).round = r.round + 1
           /\ StartedStale(r, now).resolveAt = now + StaleWindow
  <1>1. r.round + 1 \in Nat /\ now + StaleWindow \in Nat
    BY DEF Flag
  <1>2. StartedStale(r, now) \in Flag
    BY <1>1, Zenon DEF StartedStale, Flag
  <1> QED
    BY <1>2 DEF StartedStale, Flag

LEMMA HastenedFields ==
    ASSUME NEW r \in Flag, NEW c \in Nat, NEW reset \in BOOLEAN
    PROVE  /\ Hastened(r, c, reset) \in Flag
           /\ Hastened(r, c, reset).status = r.status /\ Hastened(r, c, reset).state = r.state
           /\ Hastened(r, c, reset).mode = r.mode /\ Hastened(r, c, reset).round = r.round
           /\ Hastened(r, c, reset).resolveAt =
                IF r.resolveAt = NoTime \/ (reset /\ c < r.resolveAt) THEN c ELSE r.resolveAt
           /\ Hastened(r, c, reset).resolveAt # NoTime
  BY DEF Hastened, Flag, NoTime

LEMMA StandardFields ==
    ASSUME NEW r \in Flag
    PROVE  /\ [r EXCEPT !.mode = "standard"] \in Flag
           /\ [r EXCEPT !.mode = "standard"].mode = "standard"
           /\ [r EXCEPT !.mode = "standard"].status = r.status
           /\ [r EXCEPT !.mode = "standard"].state = r.state
           /\ [r EXCEPT !.mode = "standard"].round = r.round
           /\ [r EXCEPT !.mode = "standard"].resolveAt = r.resolveAt
  BY DEF Flag

LEMMA TouchedFields ==
    ASSUME NEW r \in Flag, clock \in Nat
    PROVE  /\ Touched(r) \in Flag
           /\ Touched(r).status = r.status /\ Touched(r).state = r.state
           /\ Touched(r).mode = r.mode /\ Touched(r).round = r.round
           /\ Touched(r).resolveAt = r.resolveAt
  BY DEF Touched, Flag

(* What reconciling an undecided flag may yield.                           *)
LEMMA ReconciledCases ==
    ASSUME NEW r \in Flag, NEW R, NEW f, NEW now \in Nat, NEW reset \in BOOLEAN,
           r.status = "open", r.state = "active"
    PROVE  LET V == Votes(R, f, r.round)
               c == now + FlagResolutionDelay(Score(V)) IN
           \/ Due(r, now) /\ Reconciled(r, R, f, now, reset) = Solved(r)
           \/ /\ ~Due(r, now) /\ r.mode = "stale" /\ V = {}
              /\ Reconciled(r, R, f, now, reset) = r
           \/ /\ ~Due(r, now) /\ ~Supported(V)
              /\ Reconciled(r, R, f, now, reset) = Closed(r)
           \/ /\ ~Due(r, now) /\ Supported(V) /\ ~(r.mode = "stale" /\ V = {})
              /\ Reconciled(r, R, f, now, reset) = Hastened(r, c, reset)
  BY DEF Reconciled

LEMMA ReconciledDecided ==
    ASSUME NEW r, NEW R, NEW f, NEW now, NEW reset,
           r.status # "open" \/ r.state # "active"
    PROVE  Reconciled(r, R, f, now, reset) = r
  BY DEF Reconciled

(* Reconciling yields a flag of the same round, supported again.           *)
LEMMA ReconciledSupported ==
    ASSUME NEW r \in Flag, NEW R, NEW f, NEW now \in Nat, NEW reset \in BOOLEAN,
           BeforeReconciling(r, R, f)
    PROVE  /\ Reconciled(r, R, f, now, reset) \in Flag
           /\ Reconciled(r, R, f, now, reset).round = r.round
           /\ Reconciled(r, R, f, now, reset).status \in {r.status, "solved"}
           /\ FlagSupported(Reconciled(r, R, f, now, reset), R, f)
  <1>1. CASE r.status # "open" \/ r.state # "active"
    BY <1>1, ReconciledDecided DEF BeforeReconciling, FlagSupported
  <1>2. CASE r.status = "open" /\ r.state = "active"
    <2> DEFINE V == Votes(R, f, r.round)
               c == now + FlagResolutionDelay(Score(V))
    <2>1. c \in Nat
      BY DelayType
    <2>2. Solved(r) \in Flag /\ Closed(r) \in Flag /\ Hastened(r, c, reset) \in Flag
      BY <2>1, SolvedFields, ClosedFields, HastenedFields
    <2> HIDE DEF c
    <2>3. CASE Reconciled(r, R, f, now, reset) = Solved(r)
      BY <2>3, SolvedFields DEF FlagSupported
    <2>4. CASE Reconciled(r, R, f, now, reset) = Closed(r)
      BY <2>4, <1>2, ClosedFields DEF FlagSupported
    <2>5. CASE /\ Supported(V) /\ ~(r.mode = "stale" /\ V = {})
               /\ Reconciled(r, R, f, now, reset) = Hastened(r, c, reset)
      <3> DEFINE h == Hastened(r, c, reset)
      <3>1. /\ h.status = r.status /\ h.state = r.state /\ h.mode = r.mode
            /\ h.round = r.round /\ h.resolveAt # NoTime
        BY <2>1, HastenedFields
      <3>2. r.mode # "stale"
        BY <2>5, <1>2 DEF BeforeReconciling
      <3> HIDE DEF h
      <3>3. Reconciled(r, R, f, now, reset) = h /\ Supported(Votes(R, f, h.round)) /\ h \in Flag
        BY <2>2, <2>5, <3>1 DEF h
      <3> QED
        BY <3>1, <3>2, <3>3, <1>2 DEF FlagSupported
    <2>6. CASE r.mode = "stale" /\ V = {} /\ Reconciled(r, R, f, now, reset) = r
      BY <2>6, <1>2 DEF FlagSupported, BeforeReconciling
    <2> QED
      BY <1>2, <2>3, <2>4, <2>5, <2>6, ReconciledCases DEF c
  <1> QED
    BY <1>1, <1>2

(* Without a change of votes a supported flag is solved or left alone.     *)
LEMMA ReconciledQuiet ==
    ASSUME NEW r \in Flag, NEW R, NEW f, NEW now \in Nat, FlagSupported(r, R, f)
    PROVE  LET q == Reconciled(r, R, f, now, FALSE) IN
           \/ q = r
           \/ q = Solved(r) /\ r.status = "open" /\ Due(r, now)
  <1>1. CASE r.status # "open" \/ r.state # "active"
    BY <1>1, ReconciledDecided
  <1>2. CASE r.status = "open" /\ r.state = "active"
    <2> DEFINE V == Votes(R, f, r.round)
               c == now + FlagResolutionDelay(Score(V))
    <2>1. r.resolveAt # NoTime /\ Hastened(r, c, FALSE) = r
      BY <1>2 DEF FlagSupported, Hastened
    <2>2. ~Supported(V) => r.mode = "stale" /\ V = {}
      BY <1>2 DEF FlagSupported
    <2> HIDE DEF c
    <2>3. ~Due(r, now) => Reconciled(r, R, f, now, FALSE) \in {r, Hastened(r, c, FALSE)}
      BY <1>2, <2>2, Zenon DEF Reconciled, c
    <2>4. Due(r, now) => Reconciled(r, R, f, now, FALSE) = Solved(r)
      BY <1>2 DEF Reconciled
    <2>5. CASE Due(r, now)
      BY <1>2, <2>4, <2>5
    <2>6. CASE ~Due(r, now)
      BY <2>1, <2>3, <2>6
    <2> QED
      BY <2>5, <2>6
  <1> QED
    BY <1>1, <1>2

(* A reconciliation that may move the deadline leaves it within the score. *)
LEMMA ReconciledMeetsScore ==
    ASSUME NEW r \in Flag, NEW R, NEW f, NEW now \in Nat, NEW t \in Nat, now <= t,
           BeforeReconciling(r, R, f), r.status = "open"
    PROVE  MeetsScore(Reconciled(r, R, f, now, TRUE), R, f, t)
  <1>1. CASE r.state # "active"
    <2>1. Reconciled(r, R, f, now, TRUE) = r
      BY ONLY <1>1, ReconciledDecided
    <2> QED
      BY <1>1, <2>1 DEF MeetsScore
  <1>2. CASE r.state = "active"
    <2> DEFINE V == Votes(R, f, r.round)
               d == FlagResolutionDelay(Score(V))
    <2>1. d \in Nat /\ now + d \in Nat /\ now + d <= t + d
      BY DelayType
    <2>2. CASE Reconciled(r, R, f, now, TRUE) = Hastened(r, now + d, TRUE)
      <3>1. r.resolveAt \in Nat \cup {NoTime}
        BY DEF Flag
      <3> DEFINE h == Hastened(r, now + d, TRUE)
      <3>2. /\ h.round = r.round
            /\ h.resolveAt = IF r.resolveAt = NoTime \/ now + d < r.resolveAt
                               THEN now + d ELSE r.resolveAt
        BY <2>1, HastenedFields
      <3> HIDE DEF d, h
      <3>3. h.resolveAt <= t + d
        BY <3>1, <3>2, <2>1
      <3> QED
        BY <2>2, <3>2, <3>3 DEF MeetsScore, d, h
    <2>3. CASE Reconciled(r, R, f, now, TRUE) \in {Solved(r), Closed(r)}
      BY <2>3, SolvedFields, ClosedFields DEF MeetsScore
    <2>4. CASE r.mode = "stale" /\ Reconciled(r, R, f, now, TRUE) = r
      BY <2>4 DEF MeetsScore
    <2> QED
      BY <1>2, <2>2, <2>3, <2>4, ReconciledCases
  <1> QED
    BY <1>1, <1>2

-------------------------------------------------------------------------------
(* What holds of each flag, given the reactions and the time.              *)
FixedIn(R, f) == \E v \in R : v.flag = f /\ v.reaction = "fixed" /\ v.by \in Managers

Sound(f, r, R, t) ==
    /\ r \in Flag
    /\ r.status = "absent" => \A v \in R : v.flag # f
    /\ \A v \in R : v.flag = f => v.round \in Nat /\ v.round <= r.round
    /\ \A v, w \in R :
         /\ v.flag = f /\ w.flag = f /\ v.by = w.by /\ v.round = w.round
         /\ v.reaction \in {"fixed", "wrong"} /\ w.reaction \in {"fixed", "wrong"}
         => v = w
    /\ FlagSupported(r, R, f)
    /\ MeetsScore(r, R, f, t)
    /\ r.status # "solved" => ~FixedIn(R, f)

Inv ==
    /\ clock \in Nat
    /\ flag \in [Flags -> Flag]
    /\ \A v \in reactions : v.flag \in Flags
    /\ \A f \in Flags : Sound(f, flag[f], reactions, clock)

(* Only the reactions to the flag matter, and time only helps.             *)
LEMMA SoundLocal ==
    ASSUME NEW f, NEW r, NEW R, NEW S, NEW t \in Nat, NEW u \in Nat, t <= u,
           \A v : v.flag = f => (v \in R <=> v \in S),
           Sound(f, r, R, t)
    PROVE  Sound(f, r, S, u)
  <1>1. Votes(R, f, r.round) = Votes(S, f, r.round)
    BY DEF Votes
  <1>2. FixedIn(S, f) => FixedIn(R, f)
    BY DEF FixedIn
  <1>3. FlagSupported(r, S, f)
    BY <1>1 DEF Sound, FlagSupported
  <1>4. MeetsScore(r, S, f, u)
    <2>1. SUFFICES ASSUME r.state = "active", r.mode = "standard"
                   PROVE  r.resolveAt <= u + FlagResolutionDelay(Score(Votes(S, f, r.round)))
      BY DEF MeetsScore
    <2> DEFINE d == FlagResolutionDelay(Score(Votes(R, f, r.round)))
    <2>2. d \in Nat /\ r.resolveAt <= t + d
      BY <2>1, DelayType DEF Sound, MeetsScore
    <2>3. r.resolveAt \in Nat \cup {-1}
      BY DEF Sound, Flag, NoTime
    <2> HIDE DEF d
    <2>4. r.resolveAt <= u + d
      BY <2>2, <2>3
    <2> QED
      BY <2>4, <1>1 DEF d
  <1>5. \A v \in S : v.flag = f => v.round \in Nat /\ v.round <= r.round
    BY DEF Sound
  <1>6. \A v, w \in S :
          /\ v.flag = f /\ w.flag = f /\ v.by = w.by /\ v.round = w.round
          /\ v.reaction \in {"fixed", "wrong"} /\ w.reaction \in {"fixed", "wrong"}
          => v = w
    BY DEF Sound
  <1> QED
    BY <1>2, <1>3, <1>4, <1>5, <1>6 DEF Sound

LEMMA SoundTouched ==
    ASSUME NEW f, NEW r, NEW R, NEW t, clock \in Nat, Sound(f, r, R, t)
    PROVE  Sound(f, Touched(r), R, t)
  <1>1. r \in Flag
    BY DEF Sound
  <1>2. FlagSupported(Touched(r), R, f) /\ MeetsScore(Touched(r), R, f, t)
    BY <1>1, TouchedFields DEF Sound, FlagSupported, MeetsScore
  <1> QED
    BY <1>1, <1>2, TouchedFields DEF Sound

LEMMA SoundSolved ==
    ASSUME NEW f, NEW r, NEW R, NEW t, Sound(f, r, R, t)
    PROVE  Sound(f, Solved(r), R, t)
  <1>1. r \in Flag
    BY DEF Sound
  <1>2. FlagSupported(Solved(r), R, f) /\ MeetsScore(Solved(r), R, f, t)
    BY <1>1, SolvedFields DEF FlagSupported, MeetsScore
  <1> QED
    BY <1>1, <1>2, SolvedFields DEF Sound

LEMMA SoundQuiet ==
    ASSUME NEW f, NEW r, NEW R, NEW t, NEW now \in Nat, Sound(f, r, R, t)
    PROVE  Sound(f, Reconciled(r, R, f, now, FALSE), R, t)
  <1>1. r \in Flag /\ FlagSupported(r, R, f)
    BY DEF Sound
  <1> QED
    BY <1>1, ReconciledQuiet, SoundSolved

(* A flag without reactions, and one nobody votes on.                      *)
LEMMA SoundIdle ==
    ASSUME NEW f, NEW r \in Flag, NEW R, NEW t,
           r.state = "idle", r.resolveAt = NoTime, \A v \in R : v.flag # f
    PROVE  Sound(f, r, R, t)
  BY DEF Sound, FlagSupported, MeetsScore, FixedIn

LEMMA NowsAreNat == clock \in Nat => \A now \in Nows : now \in Nat /\ now <= clock /\ now >= clock - Lag
  BY DEF Nows

-------------------------------------------------------------------------------
(* A step that concerns one flag and reactions to it.                      *)
LEMMA OneFlag ==
    ASSUME Inv, NEW f \in Flags, NEW q,
           clock' = clock, flag' = [flag EXCEPT ![f] = q],
           \A v \in reactions' : v.flag \in Flags,
           \A v : v.flag # f => (v \in reactions <=> v \in reactions'),
           Sound(f, q, reactions', clock)
    PROVE  Inv'
  <1>1. q \in Flag
    BY DEF Sound
  <1>2. clock' \in Nat /\ flag' \in [Flags -> Flag]
    BY <1>1 DEF Inv
  <1>3. ASSUME NEW g \in Flags PROVE Sound(g, flag'[g], reactions', clock')
    <2>1. CASE g = f
      BY <2>1, clock' = clock, flag'[g] = q DEF Inv
    <2>2. CASE g # f
      <3>1. flag'[g] = flag[g] /\ Sound(g, flag[g], reactions, clock) /\ clock \in Nat
        BY <2>2 DEF Inv
      <3>2. \A v : v.flag = g => (v \in reactions <=> v \in reactions')
        BY <2>2
      <3>3. Sound(g, flag[g], reactions', clock)
        BY <3>1, <3>2, SoundLocal
      <3> QED
        BY <3>1, <3>3
    <2> QED
      BY <2>1, <2>2
  <1> QED
    BY <1>2, <1>3 DEF Inv

LEMMA CreateFlagInv ==
    ASSUME Inv, NEW u \in Users, NEW f \in Flags, CreateFlag(u, f)
    PROVE  Inv'
  <1> DEFINE q == [NoFlag EXCEPT !.status = "open", !.created = clock, !.updated = clock, !.by = u]
  <1>1. q \in Flag /\ q.state = "idle" /\ q.resolveAt = NoTime
    <2>1. NoTime \in Nat \cup {NoTime} /\ 0 \in Nat /\ clock \in Nat
      BY DEF Inv
    <2> QED
      BY <2>1, Zenon DEF NoFlag, Flag
  <1>2. /\ clock' = clock /\ flag' = [flag EXCEPT ![f] = q] /\ reactions' = reactions
    BY DEF CreateFlag
  <1> HIDE DEF q
  <1>3. Sound(f, q, reactions', clock)
    <2>1. \A v \in reactions' : v.flag # f
      BY <1>2 DEF CreateFlag, Inv, Sound
    <2> QED
      BY <1>1, <2>1, SoundIdle
  <1>4. \A v \in reactions' : v.flag \in Flags
    BY <1>2 DEF Inv
  <1> QED
    BY <1>2, <1>3, <1>4, OneFlag

LEMMA DeleteFlagInv ==
    ASSUME Inv, NEW u \in Users, NEW f \in Flags, NEW now \in Nat, DeleteFlag(u, f, now)
    PROVE  Inv'
  <1> DEFINE q == [NoFlag EXCEPT !.status = "deleted"]
  <1>1. q \in Flag /\ q.state = "idle" /\ q.resolveAt = NoTime
    <2>1. NoTime \in Nat \cup {NoTime} /\ 0 \in Nat /\ Owner \in Users
      OBVIOUS
    <2> QED
      BY <2>1, Zenon DEF NoFlag, Flag
  <1>2. /\ clock' = clock /\ flag' = [flag EXCEPT ![f] = q]
        /\ reactions' = {v \in reactions : v.flag # f}
    BY DEF DeleteFlag
  <1> HIDE DEF q
  <1>3. Sound(f, q, reactions', clock)
    BY <1>1, <1>2, SoundIdle
  <1>4. /\ \A v \in reactions' : v.flag \in Flags
        /\ \A v : v.flag # f => (v \in reactions <=> v \in reactions')
    BY <1>2 DEF Inv
  <1> QED
    BY <1>2, <1>3, <1>4, OneFlag

(* A further report of the fault is not a vote.                            *)
LEMMA ReportInv ==
    ASSUME Inv, NEW u \in Users, NEW f \in Flags, NEW now \in Nat, Report(u, f, now)
    PROVE  Inv'
  <1> DEFINE r == Reconciled(flag[f], reactions, f, now, FALSE)
             v == NewReaction(u, f, "issue_persist", 0, 0)
  <1>1. /\ clock' = clock /\ flag' = [flag EXCEPT ![f] = Touched(r)]
        /\ reactions' = reactions \cup {v}
    BY DEF Report
  <1>2. v.flag = f /\ v.reaction = "issue_persist" /\ v.round = 0
    BY DEF NewReaction
  <1>3. Sound(f, r, reactions, clock) /\ clock \in Nat /\ r.status = "open"
    BY SoundQuiet DEF Inv, Report, Reacts
  <1> HIDE DEF r, v
  <1>4. Sound(f, r, reactions', clock)
    <2>1. Votes(reactions', f, r.round) = Votes(reactions, f, r.round)
      BY <1>1, <1>2 DEF Votes
    <2>2. FlagSupported(r, reactions', f) /\ MeetsScore(r, reactions', f, clock)
      BY <2>1, <1>3 DEF Sound, FlagSupported, MeetsScore
    <2>3. FixedIn(reactions', f) => FixedIn(reactions, f)
      BY <1>1, <1>2 DEF FixedIn
    <2>4. r.round \in Nat
      BY <1>3 DEF Sound, Flag
    <2>5. \A w \in reactions' : w.flag = f => w.round \in Nat /\ w.round <= r.round
      BY <2>4, <1>1, <1>2, <1>3 DEF Sound
    <2>6. \A x, w \in reactions' :
            /\ x.flag = f /\ w.flag = f /\ x.by = w.by /\ x.round = w.round
            /\ x.reaction \in {"fixed", "wrong"} /\ w.reaction \in {"fixed", "wrong"}
            => x = w
      BY <1>1, <1>2, <1>3 DEF Sound
    <2> QED
      BY <2>2, <2>3, <2>5, <2>6, <1>3 DEF Sound
  <1>5. Sound(f, Touched(r), reactions', clock)
    BY <1>3, <1>4, SoundTouched
  <1>6. /\ \A w \in reactions' : w.flag \in Flags
        /\ \A w : w.flag # f => (w \in reactions <=> w \in reactions')
    BY <1>1, <1>2 DEF Inv
  <1> QED
    BY <1>1, <1>5, <1>6, OneFlag

(* A vote: the only step that may start a round, and the one that adds to  *)
(* a round.                                                                *)
LEMMA VoteInv ==
    ASSUME Inv, NEW u \in Users, NEW f \in Flags, NEW now \in Nat, now <= clock,
           NEW reaction \in {"fixed", "wrong"}, Vote(u, f, reaction, now)
    PROVE  Inv'
  <1> DEFINE r0  == Reconciled(flag[f], reactions, f, now, FALSE)
             r1  == IF r0.state = "active" THEN r0 ELSE Started(r0)
             old == CurrentVote(u, f, r1.round)
             x1  == IF old = {} THEN xp ELSE Reversed(xp, CHOOSE w \in old : TRUE)
             r2  == [r1 EXCEPT !.mode = "standard"]
             l   == LevelFromExp(x1.exp[u])
             v   == NewReaction(u, f, reaction, r1.round, l)
             R   == (reactions \ old) \cup {v}
             q   == IF reaction = "fixed" /\ u \in Managers
                      THEN Solved(r2) ELSE Reconciled(r2, R, f, now, TRUE)
  <1>1. /\ clock' = clock /\ flag' = [flag EXCEPT ![f] = Touched(q)] /\ reactions' = R
        /\ r0.status = "open"
    BY Zenon DEF Vote, Reacts
  <1> HIDE DEF r0, r1, l
  <1>2. v.flag = f /\ v.by = u /\ v.reaction = reaction /\ v.round = r1.round
    BY DEF NewReaction
  <1>3. Sound(f, r0, reactions, clock) /\ clock \in Nat /\ r0 \in Flag
    <2>1. Sound(f, r0, reactions, clock) /\ clock \in Nat
      BY SoundQuiet DEF Inv, r0
    <2> QED
      BY <2>1 DEF Sound
  <1>4. old = {w \in reactions : /\ w.flag = f /\ w.by = u /\ w.round = r1.round
                                 /\ w.reaction \in {"fixed", "wrong"}}
    BY DEF CurrentVote, Votes
  <1> HIDE DEF v, old
  <1>5. /\ r1 \in Flag /\ r1.status = "open" /\ r1.state = "active"
        /\ \A w \in reactions : w.flag = f => w.round \in Nat /\ w.round <= r1.round
    <2>1. CASE r0.state = "active"
      BY <2>1, <1>1, <1>3 DEF Sound, r1
    <2>2. CASE r0.state # "active"
      <3>1. r0.round \in Nat /\ r1 = Started(r0)
        BY <1>3, <2>2 DEF Flag, r1
      <3> QED
        BY <3>1, <1>1, <1>3, StartedFields DEF Sound
    <2> QED
      BY <2>1, <2>2
  <1>6. /\ r2 \in Flag /\ r2.status = "open" /\ r2.state = "active" /\ r2.mode = "standard"
        /\ r2.round = r1.round
    BY <1>5, StandardFields
  <1> HIDE DEF r2
  <1>7. \A x, w \in R :
          /\ x.flag = f /\ w.flag = f /\ x.by = w.by /\ x.round = w.round
          /\ x.reaction \in {"fixed", "wrong"} /\ w.reaction \in {"fixed", "wrong"}
          => x = w
    <2>1. \A w \in R : w # v => w \in reactions /\ w \notin old
      OBVIOUS
    <2>2. \A w \in reactions : w.flag = f /\ w.by = u /\ w.round = r1.round /\ w \notin old
            => w.reaction \notin {"fixed", "wrong"}
      BY <1>4
    <2>3. ASSUME NEW x \in R, NEW w \in R,
                 x.flag = f, w.flag = f, x.by = w.by, x.round = w.round,
                 x.reaction \in {"fixed", "wrong"}, w.reaction \in {"fixed", "wrong"}
          PROVE  x = w
      <3>1. CASE x = v /\ w = v
        BY <3>1
      <3>2. CASE x # v /\ w # v
        BY <3>2, <2>1, <2>3, <1>3 DEF Sound
      <3>3. CASE (x = v /\ w # v) \/ (x # v /\ w = v)
        BY <3>3, <2>1, <2>2, <2>3, <1>2
      <3> QED
        BY <3>1, <3>2, <3>3
    <2> QED
      BY <2>3
  <1>8. \A w \in R : w.flag = f => w.round \in Nat /\ w.round <= r2.round
    <2>1. r2.round \in Nat
      BY <1>6 DEF Flag
    <2> QED
      BY <2>1, <1>2, <1>5, <1>6
  <1>9. ~FixedIn(reactions, f)
    BY <1>1, <1>3 DEF Sound
  <1>10. Sound(f, q, R, clock) => Inv'
    <2>1. /\ \A w \in reactions' : w.flag \in Flags
          /\ \A w : w.flag # f => (w \in reactions <=> w \in reactions')
      BY <1>1, <1>2, <1>4 DEF Inv
    <2> HIDE DEF q, R
    <2> QED
      BY <2>1, <1>1, <1>3, SoundTouched, OneFlag
  <1>11. CASE reaction = "fixed" /\ u \in Managers
    <2>1. q = Solved(r2)
      BY <1>11
    <2>2. q \in Flag /\ q.status = "solved" /\ q.state = "idle" /\ q.resolveAt = NoTime
          /\ q.round = r2.round
      BY <2>1, <1>6, SolvedFields
    <2>3. FlagSupported(q, R, f) /\ MeetsScore(q, R, f, clock)
      BY <2>2 DEF FlagSupported, MeetsScore
    <2> HIDE DEF q, R
    <2>4. Sound(f, q, R, clock)
      BY <2>2, <2>3, <1>7, <1>8 DEF Sound
    <2> QED
      BY <2>4, <1>10
  <1>12. CASE ~(reaction = "fixed" /\ u \in Managers)
    <2>1. q = Reconciled(r2, R, f, now, TRUE)
      BY <1>12
    <2>2. BeforeReconciling(r2, R, f)
      BY <1>6 DEF BeforeReconciling
    <2>3. ~FixedIn(R, f)
      BY <1>2, <1>9, <1>12 DEF FixedIn
    <2> HIDE DEF q, R
    <2>4. /\ q \in Flag /\ q.round = r2.round /\ q.status \in {r2.status, "solved"}
          /\ FlagSupported(q, R, f)
      <3>1. TRUE \in BOOLEAN
        OBVIOUS
      <3>2. r2 \in Flag
        BY <1>6
      <3>3. /\ Reconciled(r2, R, f, now, TRUE) \in Flag
            /\ Reconciled(r2, R, f, now, TRUE).round = r2.round
            /\ Reconciled(r2, R, f, now, TRUE).status \in {r2.status, "solved"}
            /\ FlagSupported(Reconciled(r2, R, f, now, TRUE), R, f)
        BY <3>1, <3>2, <2>2, ReconciledSupported
      <3> QED
        BY <3>3, <2>1
    <2>5. MeetsScore(q, R, f, clock)
      BY <2>1, <2>2, <1>3, <1>6, ReconciledMeetsScore
    <2>6. Sound(f, q, R, clock)
      BY <2>3, <2>4, <2>5, <1>6, <1>7, <1>8 DEF Sound
    <2> QED
      BY <2>6, <1>10
  <1> QED
    BY <1>11, <1>12

(* A report or a vote is taken back.                                       *)
LEMMA DeleteReactionInv ==
    ASSUME Inv, NEW u \in Users, NEW f \in Flags, NEW now \in Nat, now <= clock,
           NEW reaction \in {"fixed", "wrong", "issue_persist"},
           DeleteReaction(u, f, reaction, now)
    PROVE  Inv'
  <1> DEFINE r == Reconciled(flag[f], reactions, f, now, FALSE)
  <1>1. Sound(f, r, reactions, clock) /\ clock \in Nat
    BY SoundQuiet DEF Inv
  <1>2. PICK v \in reactions : /\ v.flag = f /\ v.reaction = reaction
                               /\ reactions' = reactions \ {v}
    BY DEF DeleteReaction, Deletable
  <1> DEFINE S == reactions \ {v}
             q == IF reaction = "issue_persist" THEN r ELSE Reconciled(r, S, f, now, TRUE)
  <1>3. /\ clock' = clock /\ flag' = [flag EXCEPT ![f] = Touched(q)] /\ r.status = "open"
    BY <1>2, Zenon DEF DeleteReaction, Reacts
  <1> HIDE DEF r
  <1>4. r \in Flag /\ ~FixedIn(S, f)
    BY <1>1, <1>3 DEF Sound, FixedIn
  <1>5. /\ \A w \in S : w.flag = f => w.round \in Nat /\ w.round <= r.round
        /\ \A x, w \in S :
             /\ x.flag = f /\ w.flag = f /\ x.by = w.by /\ x.round = w.round
             /\ x.reaction \in {"fixed", "wrong"} /\ w.reaction \in {"fixed", "wrong"}
             => x = w
    BY <1>1 DEF Sound
  <1>6. Sound(f, q, S, clock) => Inv'
    <2>1. /\ \A w \in reactions' : w.flag \in Flags
          /\ \A w : w.flag # f => (w \in reactions <=> w \in reactions')
      BY <1>2 DEF Inv
    <2>2. reactions' = S
      BY <1>2
    <2> HIDE DEF q, S
    <2> QED
      BY <2>1, <2>2, <1>1, <1>3, SoundTouched, OneFlag
  <1>7. CASE reaction = "issue_persist"
    <2>1. Votes(S, f, r.round) = Votes(reactions, f, r.round)
      BY <1>2, <1>7 DEF Votes
    <2>2. q = r
      BY <1>7
    <2>3. FlagSupported(r, S, f) /\ MeetsScore(r, S, f, clock)
      BY <1>1, <2>1 DEF Sound, FlagSupported, MeetsScore
    <2> HIDE DEF q, S
    <2> QED
      BY <1>3, <1>4, <1>5, <1>6, <2>2, <2>3 DEF Sound
  <1>8. CASE reaction # "issue_persist"
    <2>1. Votes(S, f, r.round) \subseteq Votes(reactions, f, r.round)
      BY DEF Votes
    <2>2. BeforeReconciling(r, S, f)
      BY <1>1, <2>1 DEF Sound, FlagSupported, BeforeReconciling
    <2>3. q = Reconciled(r, S, f, now, TRUE)
      BY <1>8
    <2> HIDE DEF q, S
    <2>4. TRUE \in BOOLEAN
      OBVIOUS
    <2>5. /\ Reconciled(r, S, f, now, TRUE) \in Flag
          /\ Reconciled(r, S, f, now, TRUE).round = r.round
          /\ Reconciled(r, S, f, now, TRUE).status \in {r.status, "solved"}
          /\ FlagSupported(Reconciled(r, S, f, now, TRUE), S, f)
      BY <1>4, <2>2, <2>4, ReconciledSupported
    <2>6. MeetsScore(Reconciled(r, S, f, now, TRUE), S, f, clock)
      BY <1>1, <1>3, <1>4, <2>2, ReconciledMeetsScore
    <2>7. Sound(f, Reconciled(r, S, f, now, TRUE), S, clock)
      BY <1>3, <1>4, <1>5, <2>5, <2>6 DEF Sound
    <2> QED
      BY <1>6, <2>3, <2>7
  <1> QED
    BY <1>7, <1>8

LEMMA AutoSolveInv ==
    ASSUME Inv, NEW now \in Nat, AutoSolve(now)
    PROVE  Inv'
  <1>1. /\ clock' = clock /\ reactions' = reactions
        /\ flag' = [f \in Flags |-> Saved(flag[f], Reconciled(flag[f], reactions, f, now, FALSE))]
    BY DEF AutoSolve
  <1>2. ASSUME NEW f \in Flags
        PROVE  Sound(f, Saved(flag[f], Reconciled(flag[f], reactions, f, now, FALSE)), reactions, clock)
    <2>1. clock \in Nat /\ Sound(f, flag[f], reactions, clock)
      BY DEF Inv
    <2>2. Sound(f, Reconciled(flag[f], reactions, f, now, FALSE), reactions, clock)
      BY <2>1, SoundQuiet
    <2> QED
      BY <2>1, <2>2, SoundTouched DEF Saved
  <1>3. \A f \in Flags : Sound(f, flag'[f], reactions, clock) /\ flag'[f] \in Flag
    BY <1>1, <1>2 DEF Sound
  <1> QED
    BY <1>1, <1>3 DEF Inv

LEMMA AutoSolveForFlagInv ==
    ASSUME Inv, NEW f \in Flags, NEW now \in Nat, AutoSolveForFlag(f, now)
    PROVE  Inv'
  <1> DEFINE q == Saved(flag[f], Reconciled(flag[f], reactions, f, now, FALSE))
  <1>1. /\ clock' = clock /\ reactions' = reactions /\ flag' = [flag EXCEPT ![f] = q]
    BY DEF AutoSolveForFlag, Inv
  <1>2. Sound(f, q, reactions, clock)
    <2>1. clock \in Nat /\ Sound(f, flag[f], reactions, clock)
      BY DEF Inv
    <2>2. Sound(f, Reconciled(flag[f], reactions, f, now, FALSE), reactions, clock)
      BY <2>1, SoundQuiet
    <2> QED
      BY <2>1, <2>2, SoundTouched DEF Saved
  <1> HIDE DEF q
  <1> QED
    BY <1>1, <1>2, OneFlag DEF Inv

(* The sweep opens a round nobody has voted in.                            *)
LEMMA SoundStarted ==
    ASSUME NEW f, NEW r, NEW R, NEW t, NEW now \in Nat, Sound(f, r, R, t), r.status = "open"
    PROVE  Sound(f, StartedStale(r, now), R, t)
  <1> DEFINE q == StartedStale(r, now)
  <1>1. r \in Flag /\ r.round \in Nat
    BY DEF Sound, Flag
  <1>2. /\ q \in Flag /\ q.status = "open" /\ q.state = "active" /\ q.mode = "stale"
        /\ q.round = r.round + 1 /\ q.resolveAt = now + StaleWindow
    <2>1. now \in Nat /\ r \in Flag /\ r.status = "open"
      BY <1>1
    <2> QED
      BY ONLY <2>1, StartedStaleFields
  <1> HIDE DEF q
  <1>3. Votes(R, f, q.round) = {}
    BY <1>1, <1>2 DEF Sound, Votes
  <1>4. q.resolveAt # NoTime
    BY <1>2 DEF NoTime
  <1>5. FlagSupported(q, R, f) /\ MeetsScore(q, R, f, t)
    BY <1>2, <1>3, <1>4 DEF FlagSupported, MeetsScore
  <1>6. \A v \in R : v.flag = f => v.round \in Nat /\ v.round <= q.round
    BY <1>1, <1>2 DEF Sound
  <1>7. Sound(f, q, R, t)
    BY <1>2, <1>5, <1>6 DEF Sound
  <1> QED
    BY <1>7 DEF q

LEMMA StaleSweepInv ==
    ASSUME Inv, NEW now \in Nat, StaleSweep(now)
    PROVE  Inv'
  <1>1. /\ clock' = clock /\ reactions' = reactions
        /\ flag' = [f \in Flags |-> IF Stale(flag[f], now)
                                      THEN Touched(StartedStale(flag[f], now)) ELSE flag[f]]
    BY DEF StaleSweep
  <1>2. ASSUME NEW f \in Flags
        PROVE  Sound(f, flag'[f], reactions, clock)
    <2>1. clock \in Nat /\ Sound(f, flag[f], reactions, clock)
      BY DEF Inv
    <2>2. CASE Stale(flag[f], now)
      <3>1. Sound(f, StartedStale(flag[f], now), reactions, clock)
        BY <2>1, <2>2, SoundStarted DEF Stale
      <3> QED
        BY <1>1, <2>1, <2>2, <3>1, SoundTouched
    <2>3. CASE ~Stale(flag[f], now)
      BY <1>1, <2>1, <2>3
    <2> QED
      BY <2>2, <2>3
  <1>3. \A f \in Flags : flag'[f] \in Flag
    BY <1>2 DEF Sound
  <1> QED
    BY <1>1, <1>2, <1>3 DEF Inv

-------------------------------------------------------------------------------
(* Every flag is sound in every state.  Three parts of Sound are the       *)
(* properties below; the others make them inductive: no vote belongs to a  *)
(* round that has not begun (so a new round starts without votes), a flag  *)
(* not yet created has no reactions, a manager's word solves at once.      *)
THEOREM Invariance == Spec => []Inv
  <1>1. Init => Inv
    <2>1. NoFlag \in Flag /\ NoFlag.state = "idle" /\ NoFlag.resolveAt = NoTime
      <3>1. NoTime \in Nat \cup {NoTime} /\ 0 \in Nat /\ Owner \in Users
        OBVIOUS
      <3> QED
        BY <3>1, Zenon DEF NoFlag, Flag
    <2>2. SUFFICES ASSUME Init PROVE Inv
      OBVIOUS
    <2>3. /\ clock = 0 /\ reactions = {} /\ flag = [f \in Flags |-> NoFlag]
      BY <2>2 DEF Init
    <2>4. \A f \in Flags : Sound(f, flag[f], reactions, clock)
      BY <2>1, <2>3, SoundIdle
    <2> QED
      BY <2>1, <2>3, <2>4 DEF Inv
  <1>2. Inv /\ [Next]_vars => Inv'
    <2> SUFFICES ASSUME Inv, [Next]_vars PROVE Inv'
      OBVIOUS
    <2>1. CASE UNCHANGED <<clock, flag, reactions>>
      BY <2>1 DEF Inv
    <2>2. ASSUME NEW u \in Users, NEW f \in Flags, CreateFlag(u, f) PROVE Inv'
      BY <2>2, CreateFlagInv
    <2>3. ASSUME NEW u \in Users, NEW f \in Flags, NEW now \in Nows, DeleteFlag(u, f, now)
          PROVE  Inv'
      BY <2>3, DeleteFlagInv, NowsAreNat DEF Inv
    <2>4. ASSUME NEW u \in Users, NEW f \in Flags, NEW now \in Nows, Report(u, f, now)
          PROVE  Inv'
      BY <2>4, ReportInv, NowsAreNat DEF Inv
    <2>5. ASSUME NEW u \in Users, NEW f \in Flags, NEW now \in Nows,
                 NEW reaction \in {"fixed", "wrong"}, Vote(u, f, reaction, now)
          PROVE  Inv'
      <3>1. now \in Nat /\ now <= clock
        BY NowsAreNat DEF Inv
      <3> QED
        BY <2>5, <3>1, VoteInv
    <2>6. ASSUME NEW u \in Users, NEW f \in Flags, NEW now \in Nows,
                 NEW reaction \in {"fixed", "wrong", "issue_persist"},
                 DeleteReaction(u, f, reaction, now)
          PROVE  Inv'
      <3>1. now \in Nat /\ now <= clock
        BY NowsAreNat DEF Inv
      <3> QED
        BY <2>6, <3>1, DeleteReactionInv
    <2>7. ASSUME NEW now \in Nows, AutoSolve(now) \/ StaleSweep(now) PROVE Inv'
      BY <2>7, AutoSolveInv, StaleSweepInv, NowsAreNat DEF Inv
    <2>8. ASSUME NEW now \in Nows, NEW f \in Flags, AutoSolveForFlag(f, now) PROVE Inv'
      BY <2>8, AutoSolveForFlagInv, NowsAreNat DEF Inv
    <2>9. CASE Tick
      <3>1. clock' = clock + 1 /\ flag' = flag /\ reactions' = reactions
        BY <2>9 DEF Tick
      <3>2. clock \in Nat /\ clock' \in Nat /\ clock <= clock'
        BY <3>1 DEF Inv
      <3>3. ASSUME NEW f \in Flags PROVE Sound(f, flag'[f], reactions', clock')
        <4>1. Sound(f, flag[f], reactions, clock)
          BY DEF Inv
        <4>2. Sound(f, flag[f], reactions, clock')
          BY <3>2, <4>1, SoundLocal
        <4> QED
          BY <3>1, <4>2
      <3> QED
        BY <3>1, <3>2, <3>3 DEF Inv
    <2> QED
      BY <2>1, <2>2, <2>3, <2>4, <2>5, <2>6, <2>7, <2>8, <2>9
         DEF Next, Request, Cron, Publish, Unpublish, Redirect, Crash, vars
  <1> QED
    BY <1>1, <1>2, PTL DEF Spec

(* A user has at most one vote in each round of a report: Vote removes the *)
(* one it replaces, and a new round starts without votes.                  *)
THEOREM OneVote == Spec => []OneVoteEach
  <1>1. Inv => OneVoteEach
    BY DEF Inv, Sound, OneVoteEach
  <1> QED
    BY <1>1, Invariance, PTL

(* A resolution is backed by votes or is a stale window without any, and   *)
(* always has a deadline.                                                  *)
THEOREM Supports == Spec => []ResolutionIsSupported
  <1>1. Inv => ResolutionIsSupported
    BY DEF Inv, Sound, FlagSupported, ResolutionIsSupported
  <1> QED
    BY <1>1, Invariance, PTL

(* The deadline of a vote is never later than its score asks for.          *)
THEOREM Deadlines == Spec => []DeadlineMeetsScore
  <1>1. Inv => DeadlineMeetsScore
    BY DEF Inv, Sound, MeetsScore, DeadlineMeetsScore
  <1> QED
    BY <1>1, Invariance, PTL

-------------------------------------------------------------------------------
(* What a request does with the flag it found: an undecided flag stays     *)
(* undecided under the reconciliation every request starts with.           *)
LEMMA FoundOpen ==
    ASSUME Inv, NEW f \in Flags, NEW now \in Nat,
           Reconciled(flag[f], reactions, f, now, FALSE).status = "open"
    PROVE  /\ Reconciled(flag[f], reactions, f, now, FALSE) = flag[f]
           /\ flag[f].status = "open"
           /\ flag[f].state = "active" => ~Due(flag[f], now)
  <1>1. flag[f] \in Flag /\ FlagSupported(flag[f], reactions, f)
    BY DEF Inv, Sound
  <1>2. Reconciled(flag[f], reactions, f, now, FALSE) = flag[f]
    <2>1. \/ Reconciled(flag[f], reactions, f, now, FALSE) = flag[f]
          \/ Reconciled(flag[f], reactions, f, now, FALSE) = Solved(flag[f])
      BY <1>1, ReconciledQuiet
    <2>2. Solved(flag[f]).status = "solved"
      BY <1>1, SolvedFields
    <2> QED
      BY <2>1, <2>2
  <1>3. flag[f].state = "active" /\ Due(flag[f], now)
          => Reconciled(flag[f], reactions, f, now, FALSE) = Solved(flag[f])
    BY <1>2 DEF Reconciled
  <1> QED
    BY <1>1, <1>2, <1>3, SolvedFields

(* A solved report never changes, nor do the reactions to it: every        *)
(* request makes sure that its flag is open.                               *)
THEOREM Final == Spec => SolvedIsFinal
  <1> DEFINE Kept(f) == /\ flag'[f] = flag[f]
                        /\ {v \in reactions' : v.flag = f} = {v \in reactions : v.flag = f}
  <1>1. ASSUME Inv, [Next]_vars, NEW f \in Flags, flag[f].status = "solved"
        PROVE  Kept(f)
    <2>0. flag \in [Flags -> Flag]
      BY <1>1 DEF Inv
    <2>1. CASE UNCHANGED <<flag, reactions>>
      BY <2>1
    <2>2. ASSUME NEW g \in Flags, flag[g].status # "solved", NEW q,
                 flag' = [flag EXCEPT ![g] = q],
                 \A v : v.flag # g => (v \in reactions <=> v \in reactions')
          PROVE  Kept(f)
      <3>1. f # g
        BY <1>1, <2>2
      <3> QED
        BY <2>0, <2>2, <3>1
    <2>3. ASSUME NEW u \in Users, NEW g \in Flags, CreateFlag(u, g) PROVE Kept(f)
      <3>1. flag[g].status # "solved" /\ reactions' = reactions
        BY <2>3 DEF CreateFlag
      <3>2. f # g
        BY <1>1, <3>1
      <3> QED
        BY <2>0, <2>3, <3>1, <3>2 DEF CreateFlag
    <2>4. ASSUME NEW u \in Users, NEW g \in Flags, NEW now \in Nows, DeleteFlag(u, g, now)
          PROVE  Kept(f)
      <3>1. flag[g].status # "solved" /\ reactions' = {v \in reactions : v.flag # g}
        BY <2>4 DEF DeleteFlag
      <3>2. f # g
        BY <1>1, <3>1
      <3> QED
        BY <2>0, <2>4, <3>1, <3>2 DEF DeleteFlag
    <2>5. ASSUME NEW u \in Users, NEW g \in Flags, NEW now \in Nows, Report(u, g, now)
          PROVE  Kept(f)
      <3> DEFINE v == NewReaction(u, g, "issue_persist", 0, 0)
      <3>1. flag[g].status # "solved" /\ reactions' = reactions \cup {v}
        BY <2>5 DEF Report, Reacts
      <3>2. PICK q : flag' = [flag EXCEPT ![g] = q]
        BY <2>5 DEF Report
      <3>3. v.flag = g
        BY DEF NewReaction
      <3> HIDE DEF v
      <3> QED
        BY <2>2, <3>1, <3>2, <3>3
    <2>6. ASSUME NEW u \in Users, NEW g \in Flags, NEW now \in Nows,
                 NEW reaction \in {"fixed", "wrong"}, Vote(u, g, reaction, now)
          PROVE  Kept(f)
      <3>1. PICK q, n, l :
              /\ flag[g].status = "open"
              /\ flag' = [flag EXCEPT ![g] = q]
              /\ reactions' = (reactions \ CurrentVote(u, g, n))
                                \cup {NewReaction(u, g, reaction, n, l)}
        BY <2>6, Zenon DEF Vote, Reacts
      <3>2. NewReaction(u, g, reaction, n, l).flag = g
        BY DEF NewReaction
      <3>3. \A v \in CurrentVote(u, g, n) : v.flag = g
        BY DEF CurrentVote, Votes
      <3> QED
        BY <2>2, <3>1, <3>2, <3>3
    <2>7. ASSUME NEW u \in Users, NEW g \in Flags, NEW now \in Nows,
                 NEW reaction \in {"fixed", "wrong", "issue_persist"},
                 DeleteReaction(u, g, reaction, now)
          PROVE  Kept(f)
      <3>1. PICK v : v.flag = g /\ reactions' = reactions \ {v}
        BY <2>7 DEF DeleteReaction, Deletable
      <3>2. PICK q : flag[g].status = "open" /\ flag' = [flag EXCEPT ![g] = q]
        BY <2>7, Zenon DEF DeleteReaction, Reacts
      <3> QED
        BY <2>2, <3>1, <3>2
    <2>8. ASSUME NEW now \in Nows, AutoSolve(now) \/ StaleSweep(now) PROVE Kept(f)
      <3>1. Reconciled(flag[f], reactions, f, now, FALSE) = flag[f]
        BY <1>1 DEF Reconciled
      <3> QED
        BY <1>1, <2>8, <3>1 DEF AutoSolve, StaleSweep, Saved, Stale
    <2>9. ASSUME NEW now \in Nows, NEW g \in Flags, AutoSolveForFlag(g, now) PROVE Kept(f)
      <3>1. Reconciled(flag[f], reactions, f, now, FALSE) = flag[f]
        BY <1>1 DEF Reconciled
      <3> QED
        BY <1>1, <2>0, <2>9, <3>1 DEF AutoSolveForFlag, Saved
    <2> QED
      BY <1>1, <2>1, <2>3, <2>4, <2>5, <2>6, <2>7, <2>8, <2>9
         DEF Next, Request, Cron, Publish, Unpublish, Redirect, Crash, Tick, vars
  <1>2. Inv /\ [Next]_vars =>
          [\A f \in Flags : flag[f].status = "solved" => Kept(f)]_vars
    BY <1>1
  <1> QED
    BY <1>2, Invariance, PTL DEF Spec, SolvedIsFinal

-------------------------------------------------------------------------------
(* The refinement.  Seen from outside a report makes one of eight moves.   *)
LEMMA PhaseOf ==
    ASSUME NEW f \in Flags, flag[f].status \in {"absent", "open", "solved", "deleted"}
    PROVE  /\ flag[f].status = "absent" => Phase(f) = "absent"
           /\ flag[f].status = "deleted" => Phase(f) = "withdrawn"
           /\ flag[f].status = "solved" /\ FixedIn(reactions, f) => Phase(f) = "fixed"
           /\ flag[f].status = "solved" /\ ~FixedIn(reactions, f) => Phase(f) = "expired"
           /\ flag[f].status = "open" /\ flag[f].state = "active" => Phase(f) = "voting"
           /\ flag[f].status = "open" /\ flag[f].state # "active" => Phase(f) = "open"
  BY DEF Phase, FixedByManager, FixedIn

LEMMA PhaseOfNext ==
    ASSUME NEW f \in Flags, flag'[f].status \in {"absent", "open", "solved", "deleted"}
    PROVE  /\ flag'[f].status = "absent" => Phase(f)' = "absent"
           /\ flag'[f].status = "deleted" => Phase(f)' = "withdrawn"
           /\ flag'[f].status = "solved" /\ FixedIn(reactions', f) => Phase(f)' = "fixed"
           /\ flag'[f].status = "solved" /\ ~FixedIn(reactions', f) => Phase(f)' = "expired"
           /\ flag'[f].status = "open" /\ flag'[f].state = "active" => Phase(f)' = "voting"
           /\ flag'[f].status = "open" /\ flag'[f].state # "active" => Phase(f)' = "open"
  BY DEF Phase, FixedByManager, FixedIn

Open(r, state) == r.status = "open" /\ r.state = state

Stays(f) ==
    /\ flag'[f].status = flag[f].status /\ flag'[f].state = flag[f].state
    /\ flag'[f].resolveAt = flag[f].resolveAt
    /\ flag[f].status = "solved" => (FixedIn(reactions', f) <=> FixedIn(reactions, f))
Appears(f) ==
    /\ flag[f].status = "absent" /\ Open(flag'[f], "idle") /\ flag'[f].resolveAt = NoTime
Begins(f) ==
    /\ Open(flag[f], "idle") /\ Open(flag'[f], "active")
    /\ flag'[f].resolveAt >= clock + (Delay[30] - Lag)
Comes(f) ==
    /\ Open(flag[f], "active") /\ Open(flag'[f], "active")
    /\ flag'[f].resolveAt < flag[f].resolveAt
    /\ flag'[f].resolveAt >= clock + (Delay[30] - Lag)
Ends(f) ==
    /\ Open(flag[f], "active") /\ Open(flag'[f], "idle") /\ flag'[f].resolveAt = NoTime
Passes(f) ==
    /\ Open(flag[f], "active") /\ flag[f].resolveAt <= clock
    /\ flag'[f].status = "solved" /\ flag'[f].resolveAt = NoTime /\ ~FixedIn(reactions', f)
IsFixed(f) ==
    /\ flag[f].status = "open"
    /\ flag'[f].status = "solved" /\ flag'[f].resolveAt = NoTime /\ FixedIn(reactions', f)
Goes(f) ==
    /\ flag[f].status = "open" /\ flag'[f].status = "deleted" /\ flag'[f].resolveAt = NoTime

MakesMove(f) ==
    \/ Stays(f) \/ Appears(f) \/ Begins(f) \/ Comes(f)
    \/ Ends(f) \/ Passes(f) \/ IsFixed(f) \/ Goes(f)

LEMMA MovesAreSteps ==
    ASSUME Inv, Inv', clock' >= clock, \A f \in Flags : MakesMove(f)
    PROVE  Outcome!OStep
  <1> DEFINE P == {"absent", "open", "voting", "expired", "fixed", "withdrawn"}
             Step(f) == \/ Outcome!Report(f) \/ Outcome!PutUp(f) \/ Outcome!Hasten(f)
                        \/ Outcome!Reject(f) \/ Outcome!Expire(f) \/ Outcome!Fix(f)
                        \/ Outcome!Withdraw(f) \/ Outcome!Rests(f)
  <1>1. ASSUME NEW f \in Flags
        PROVE  /\ flag[f].status \in {"absent", "open", "solved", "deleted"}
               /\ flag'[f].status \in {"absent", "open", "solved", "deleted"}
               /\ flag[f].state \in {"idle", "active"} /\ flag'[f].state \in {"idle", "active"}
    BY DEF Inv, Flag
  <1>2. ASSUME NEW f \in Flags PROVE Phase(f)' \in P
    BY <1>1, PhaseOfNext
  <1>3. ASSUME NEW f \in Flags PROVE Step(f)
    <2>1. CASE Stays(f)
      <3>1. Phase(f)' = Phase(f)
        BY <1>1, <2>1, PhaseOf, PhaseOfNext DEF Stays
      <3> QED
        BY <2>1, <3>1 DEF Stays, Outcome!Rests
    <2>2. CASE Appears(f)
      BY <1>1, <2>2, PhaseOf, PhaseOfNext DEF Appears, Open, Outcome!Report, Outcome!Moves
    <2>3. CASE Begins(f)
      BY <1>1, <2>3, PhaseOf, PhaseOfNext DEF Begins, Open, Outcome!PutUp, Outcome!Moves
    <2>4. CASE Comes(f)
      BY <1>1, <2>4, PhaseOf, PhaseOfNext DEF Comes, Open, Outcome!Hasten, Outcome!Moves
    <2>5. CASE Ends(f)
      BY <1>1, <2>5, PhaseOf, PhaseOfNext DEF Ends, Open, Outcome!Reject, Outcome!Moves
    <2>6. CASE Passes(f)
      BY <1>1, <2>6, PhaseOf, PhaseOfNext DEF Passes, Open, Outcome!Expire, Outcome!Moves
    <2>7. CASE IsFixed(f)
      BY <1>1, <2>7, PhaseOf, PhaseOfNext DEF IsFixed, Outcome!Fix
    <2>8. CASE Goes(f)
      BY <1>1, <2>8, PhaseOf, PhaseOfNext DEF Goes, Outcome!Withdraw
    <2> QED
      BY <2>1, <2>2, <2>3, <2>4, <2>5, <2>6, <2>7, <2>8 DEF MakesMove
  <1> QED
    BY <1>2, <1>3 DEF Outcome!OStep

(* A step that leaves a flag and the reactions to it alone.                *)
LEMMA OthersStay ==
    ASSUME Inv, NEW f \in Flags, NEW g \in Flags, g # f, NEW q,
           flag' = [flag EXCEPT ![f] = q],
           \A v : v.flag # f => (v \in reactions <=> v \in reactions')
    PROVE  MakesMove(g)
  <1>1. flag'[g] = flag[g]
    BY DEF Inv
  <1>2. FixedIn(reactions', g) <=> FixedIn(reactions, g)
    BY DEF FixedIn
  <1> QED
    BY <1>1, <1>2 DEF MakesMove, Stays

(* What a reconciliation after a change of votes may do to an open flag    *)
(* that was not due.                                                       *)
LEMMA ReconciledMoves ==
    ASSUME NEW r \in Flag, NEW R, NEW f, NEW now \in Nat,
           clock \in Nat, now >= clock - Lag, BeforeReconciling(r, R, f),
           r.status = "open", r.state = "active" => ~Due(r, now), NEW q,
           q = Reconciled(r, R, f, now, TRUE)
    PROVE  \/ Open(q, "idle") /\ q.resolveAt = NoTime
           \/ Open(q, "active") /\ r.state = "active" /\ q.resolveAt = r.resolveAt /\ q.resolveAt # NoTime
           \/ /\ Open(q, "active") /\ r.state = "active"
              /\ q.resolveAt >= clock + (Delay[30] - Lag)
              /\ r.resolveAt # NoTime => q.resolveAt < r.resolveAt
  <1>1. CASE r.state # "active"
    <2>1. q = r
      BY <1>1 DEF Reconciled
    <2>2. r.state = "idle"
      BY <1>1 DEF Flag
    <2> QED
      BY <2>1, <2>2 DEF BeforeReconciling, Open
  <1>2. CASE r.state = "active"
    <2> DEFINE V == Votes(R, f, r.round)
               d == FlagResolutionDelay(Score(V))
               h == Hastened(r, now + d, TRUE)
    <2>1. d \in Nat /\ now + d \in Nat /\ now + d >= clock + (Delay[30] - Lag)
      <3>1. d \in Nat /\ d >= Delay[30]
        BY DelayType
      <3>2. Delay[30] \in Nat
        BY DEF Tiers
      <3> HIDE DEF d
      <3> QED
        BY <3>1, <3>2
    <2>2. /\ h.status = r.status /\ h.state = r.state /\ h.resolveAt # NoTime
          /\ h.resolveAt = IF r.resolveAt = NoTime \/ now + d < r.resolveAt THEN now + d
                           ELSE r.resolveAt
      BY <2>1, HastenedFields
    <2>3. (q = r /\ r.mode = "stale") \/ q = Closed(r) \/ q = h
      <3>1. ~Due(r, now) /\ TRUE \in BOOLEAN
        BY <1>2
      <3> QED
        BY <3>1, <1>2, ReconciledCases
    <2> HIDE DEF d, h
    <2>4. CASE q = h
      BY <1>2, <2>1, <2>2, <2>4 DEF Open
    <2>5. CASE q = Closed(r)
      BY <2>5, ClosedFields DEF Open
    <2>6. CASE q = r /\ r.mode = "stale"
      BY <2>6, <1>2 DEF Open, BeforeReconciling
    <2> QED
      BY <2>3, <2>4, <2>5, <2>6
  <1> QED
    BY <1>1, <1>2

LEMMA SavedMoves ==
    ASSUME Inv, NEW f \in Flags, NEW now \in Nat, now <= clock, reactions' = reactions,
           flag'[f] = Saved(flag[f], Reconciled(flag[f], reactions, f, now, FALSE))
    PROVE  MakesMove(f)
  <1> DEFINE r == flag[f]
             q == Reconciled(r, reactions, f, now, FALSE)
  <1>1. r \in Flag /\ FlagSupported(r, reactions, f) /\ clock \in Nat
        /\ (r.status # "solved" => ~FixedIn(reactions, f))
    BY DEF Inv, Sound
  <1>2. CASE q = r
    BY <1>2 DEF Saved, MakesMove, Stays
  <1>3. CASE q = Solved(r) /\ r.status = "open" /\ Due(r, now)
    <2>1. Solved(r) \in Flag /\ Solved(r).status = "solved" /\ Solved(r).resolveAt = NoTime
      BY <1>1, SolvedFields
    <2>2. flag'[f] = Touched(Solved(r))
      <3>1. flag'[f] = Saved(r, q)
        OBVIOUS
      <3> HIDE DEF q
      <3> QED
        BY <1>3, <2>1, <3>1 DEF Saved
    <2>3. /\ flag'[f].status = "solved" /\ flag'[f].resolveAt = NoTime
      BY <1>1, <2>1, <2>2, TouchedFields
    <2>4. r.resolveAt <= clock /\ r.state = "active"
      BY <1>1, <1>3 DEF Due, Flag, NoTime
    <2> QED
      BY <1>1, <1>3, <2>3, <2>4 DEF MakesMove, Passes, Open
  <1> QED
    BY <1>1, <1>2, <1>3, ReconciledQuiet

LEMMA CreateFlagMoves ==
    ASSUME Inv, NEW u \in Users, NEW f \in Flags, CreateFlag(u, f), NEW g \in Flags
    PROVE  MakesMove(g)
  <1> DEFINE q == [NoFlag EXCEPT !.status = "open", !.created = clock, !.updated = clock, !.by = u]
  <1>1. /\ flag' = [flag EXCEPT ![f] = q] /\ reactions' = reactions /\ flag[f].status = "absent"
    BY DEF CreateFlag
  <1>2. q.status = "open" /\ q.state = "idle" /\ q.resolveAt = NoTime
    BY DEF NoFlag
  <1> HIDE DEF q
  <1>3. CASE g = f
    BY <1>1, <1>2, <1>3 DEF Inv, MakesMove, Appears, Open
  <1>4. CASE g # f
    BY <1>1, <1>4, OthersStay
  <1> QED
    BY <1>3, <1>4

LEMMA DeleteFlagMoves ==
    ASSUME Inv, NEW u \in Users, NEW f \in Flags, NEW now, DeleteFlag(u, f, now), NEW g \in Flags
    PROVE  MakesMove(g)
  <1> DEFINE q == [NoFlag EXCEPT !.status = "deleted"]
  <1>1. /\ flag' = [flag EXCEPT ![f] = q] /\ flag[f].status = "open"
        /\ reactions' = {v \in reactions : v.flag # f}
    BY DEF DeleteFlag
  <1>2. q.status = "deleted" /\ q.resolveAt = NoTime
    BY DEF NoFlag
  <1> HIDE DEF q
  <1>3. CASE g = f
    BY <1>1, <1>2, <1>3 DEF Inv, MakesMove, Goes
  <1>4. CASE g # f
    BY <1>1, <1>4, OthersStay
  <1> QED
    BY <1>3, <1>4

LEMMA ReportMoves ==
    ASSUME Inv, NEW u \in Users, NEW f \in Flags, NEW now \in Nat, Report(u, f, now), NEW g \in Flags
    PROVE  MakesMove(g)
  <1> DEFINE v == NewReaction(u, f, "issue_persist", 0, 0)
  <1>1. /\ Reconciled(flag[f], reactions, f, now, FALSE).status = "open"
        /\ flag' = [flag EXCEPT ![f] = Touched(Reconciled(flag[f], reactions, f, now, FALSE))]
        /\ reactions' = reactions \cup {v}
    BY DEF Report, Reacts
  <1>2. v.flag = f
    BY DEF NewReaction
  <1> HIDE DEF v
  <1>3. CASE g = f
    <2>1. flag[f].status = "open" /\ flag'[f] = Touched(flag[f])
      BY <1>1, FoundOpen DEF Inv
    <2>2. clock \in Nat /\ flag[f] \in Flag
      BY DEF Inv
    <2> QED
      BY <1>3, <2>1, <2>2, TouchedFields DEF MakesMove, Stays
  <1>4. CASE g # f
    BY <1>1, <1>2, <1>4, OthersStay
  <1> QED
    BY <1>3, <1>4

LEMMA DeleteReactionMoves ==
    ASSUME Inv, NEW u \in Users, NEW f \in Flags, NEW now \in Nat, now >= clock - Lag,
           NEW reaction \in {"fixed", "wrong", "issue_persist"},
           DeleteReaction(u, f, reaction, now), NEW g \in Flags
    PROVE  MakesMove(g)
  <1> DEFINE r == Reconciled(flag[f], reactions, f, now, FALSE)
             q == IF reaction = "issue_persist" THEN r ELSE Reconciled(r, reactions', f, now, TRUE)
  <1>1. PICK v \in reactions : v.flag = f /\ reactions' = reactions \ {v}
    BY DEF DeleteReaction, Deletable
  <1>2. r.status = "open" /\ flag' = [flag EXCEPT ![f] = Touched(q)]
    BY Zenon DEF DeleteReaction, Reacts
  <1>3. CASE g = f
    <2>1. r = flag[f] /\ flag[f].status = "open" /\ (flag[f].state = "active" => ~Due(flag[f], now))
      BY <1>2, FoundOpen
    <2>2. clock \in Nat /\ flag[f] \in Flag /\ FlagSupported(flag[f], reactions, f)
      BY DEF Inv, Sound
    <2> HIDE DEF r
    <2>3. CASE reaction = "issue_persist"
      <3>1. flag'[f] = Touched(flag[f])
        BY <1>2, <2>1, <2>3 DEF Inv
      <3> QED
        BY <1>3, <2>1, <2>2, <3>1, TouchedFields DEF MakesMove, Stays
    <2>4. CASE reaction # "issue_persist"
      <3>1. q = Reconciled(flag[f], reactions', f, now, TRUE)
        BY <2>1, <2>4
      <3>2. BeforeReconciling(flag[f], reactions', f)
        <4>1. \A n : Votes(reactions', f, n) \subseteq Votes(reactions, f, n)
          BY <1>1 DEF Votes
        <4> QED
          BY <2>2, <4>1 DEF FlagSupported, BeforeReconciling
      <3> HIDE DEF q
      <3>3. TRUE \in BOOLEAN
        OBVIOUS
      <3>4. Reconciled(flag[f], reactions', f, now, TRUE) \in Flag
        BY <2>2, <3>2, <3>3, ReconciledSupported
      <3>5. /\ flag'[f].status = q.status /\ flag'[f].state = q.state
            /\ flag'[f].resolveAt = q.resolveAt
        BY <1>2, <2>2, <3>1, <3>4, TouchedFields DEF Inv
      <3>6. \/ Open(q, "idle") /\ q.resolveAt = NoTime
            \/ /\ Open(q, "active") /\ flag[f].state = "active"
               /\ q.resolveAt = flag[f].resolveAt /\ q.resolveAt # NoTime
            \/ /\ Open(q, "active") /\ flag[f].state = "active"
               /\ q.resolveAt >= clock + (Delay[30] - Lag)
               /\ flag[f].resolveAt # NoTime => q.resolveAt < flag[f].resolveAt
        <4>1. /\ clock \in Nat /\ now \in Nat /\ now >= clock - Lag
              /\ flag[f] \in Flag /\ flag[f].status = "open"
              /\ flag[f].state = "active" => ~Due(flag[f], now)
          BY <2>1, <2>2
        <4> QED
          BY ONLY <3>1, <3>2, <4>1, ReconciledMoves
      <3>7. /\ flag[f].state \in {"idle", "active"}
            /\ flag[f].state = "idle" => flag[f].resolveAt = NoTime
            /\ flag[f].state = "active" => flag[f].resolveAt # NoTime
        BY ONLY <2>1, <2>2 DEF FlagSupported, Flag
      <3>8. Stays(f) \/ Comes(f) \/ Ends(f)
        BY ONLY <2>1, <3>5, <3>6, <3>7 DEF Open, Stays, Comes, Ends
      <3> QED
        BY <1>3, <3>8 DEF MakesMove
    <2> QED
      BY <2>3, <2>4
  <1>4. CASE g # f
    BY <1>1, <1>2, <1>4, OthersStay
  <1> QED
    BY <1>3, <1>4

LEMMA VoteMoves ==
    ASSUME Inv, NEW u \in Users, NEW f \in Flags, NEW now \in Nat, now >= clock - Lag,
           NEW reaction \in {"fixed", "wrong"}, Vote(u, f, reaction, now), NEW g \in Flags
    PROVE  MakesMove(g)
  <1> DEFINE r0  == Reconciled(flag[f], reactions, f, now, FALSE)
             r1  == IF r0.state = "active" THEN r0 ELSE Started(r0)
             old == CurrentVote(u, f, r1.round)
             x1  == IF old = {} THEN xp ELSE Reversed(xp, CHOOSE w \in old : TRUE)
             r2  == [r1 EXCEPT !.mode = "standard"]
             l   == LevelFromExp(x1.exp[u])
             v   == NewReaction(u, f, reaction, r1.round, l)
             R   == (reactions \ old) \cup {v}
             q   == IF reaction = "fixed" /\ u \in Managers
                      THEN Solved(r2) ELSE Reconciled(r2, R, f, now, TRUE)
  <1>1. /\ flag' = [flag EXCEPT ![f] = Touched(q)] /\ reactions' = R
        /\ r0.status = "open"
    BY Zenon DEF Vote, Reacts
  <1> HIDE DEF l
  <1>2. r0 = flag[f] /\ flag[f].status = "open" /\ (flag[f].state = "active" => ~Due(flag[f], now))
    BY <1>1, FoundOpen
  <1> HIDE DEF r0
  <1>3. clock \in Nat /\ flag[f] \in Flag /\ FlagSupported(flag[f], reactions, f)
    BY DEF Inv, Sound
  <1>4. /\ r1 \in Flag /\ r1.status = "open" /\ r1.state = "active"
        /\ r1.resolveAt = IF flag[f].state = "active" THEN flag[f].resolveAt ELSE NoTime
    BY <1>2, <1>3, StartedFields
  <1> HIDE DEF r1
  <1>5. v.flag = f /\ v.reaction = reaction /\ v.by = u
    BY DEF NewReaction
  <1>6. \A w \in old : w.flag = f
    BY DEF CurrentVote, Votes
  <1> HIDE DEF v, old
  <1>7. /\ r2 \in Flag /\ r2.status = "open" /\ r2.state = "active" /\ r2.mode = "standard"
        /\ r2.resolveAt = r1.resolveAt
    BY <1>4, StandardFields
  <1> HIDE DEF r2
  <1>8. r2.resolveAt # NoTime => flag[f].state = "active" /\ ~Due(r2, now)
    BY <1>2, <1>4, <1>7 DEF Due
  <1>9. CASE g = f /\ reaction = "fixed" /\ u \in Managers
    <2>1. q = Solved(r2)
      BY <1>9
    <2>2. FixedIn(R, f)
      BY <1>5, <1>9 DEF FixedIn
    <2> HIDE DEF q, R
    <2>3. flag'[f].status = "solved" /\ flag'[f].resolveAt = NoTime
      BY <1>1, <1>3, <1>7, <2>1, SolvedFields, TouchedFields DEF Inv
    <2> QED
      BY <1>1, <1>2, <1>9, <2>2, <2>3 DEF MakesMove, IsFixed
  <1>10. CASE g = f /\ ~(reaction = "fixed" /\ u \in Managers)
    <2>1. q = Reconciled(r2, R, f, now, TRUE)
      BY <1>10
    <2>2. BeforeReconciling(r2, R, f)
      BY <1>7 DEF BeforeReconciling
    <2> HIDE DEF q, R
    <2>3. TRUE \in BOOLEAN /\ ~Due(r2, now)
      BY <1>8 DEF Due
    <2>4. Reconciled(r2, R, f, now, TRUE) \in Flag
      BY <1>7, <2>2, <2>3, ReconciledSupported
    <2>5. /\ flag'[f].status = q.status /\ flag'[f].state = q.state
          /\ flag'[f].resolveAt = q.resolveAt
      BY <1>1, <1>3, <2>1, <2>4, TouchedFields DEF Inv
    <2>6. \/ Open(q, "idle") /\ q.resolveAt = NoTime
          \/ Open(q, "active") /\ q.resolveAt = r2.resolveAt /\ q.resolveAt # NoTime
          \/ /\ Open(q, "active")
             /\ q.resolveAt >= clock + (Delay[30] - Lag)
             /\ r2.resolveAt # NoTime => q.resolveAt < r2.resolveAt
      BY <1>3, <1>7, <2>1, <2>2, <2>3, ReconciledMoves
    <2>7. flag[f].state \in {"idle", "active"}
      BY <1>3 DEF Flag
    <2>8. CASE flag[f].state = "active"
      <3>1. r2.resolveAt = flag[f].resolveAt /\ r2.resolveAt # NoTime
        BY <1>3, <1>4, <1>7, <2>8 DEF FlagSupported
      <3> QED
        BY <1>2, <1>10, <2>5, <2>6, <2>8, <3>1 DEF Open, MakesMove, Stays, Comes, Ends
    <2>9. CASE flag[f].state = "idle"
      <3>1. r2.resolveAt = NoTime /\ flag[f].resolveAt = NoTime
        BY <1>3, <1>4, <1>7, <2>9 DEF FlagSupported
      <3> QED
        BY <1>2, <1>10, <2>5, <2>6, <2>9, <3>1 DEF Open, MakesMove, Stays, Begins
    <2> QED
      BY <2>7, <2>8, <2>9
  <1>11. CASE g # f
    <2>1. \A w : w.flag # f => (w \in reactions <=> w \in reactions')
      BY <1>1, <1>5, <1>6
    <2> HIDE DEF q, R
    <2> QED
      BY <1>1, <1>11, <2>1, OthersStay
  <1> QED
    BY <1>9, <1>10, <1>11

LEMMA StaleSweepMoves ==
    ASSUME Inv, NEW now \in Nat, now >= clock - Lag, StaleSweep(now), NEW f \in Flags
    PROVE  MakesMove(f)
  <1>1. flag[f] \in Flag /\ clock \in Nat /\ reactions' = reactions
    BY DEF Inv, StaleSweep
  <1>2. CASE Stale(flag[f], now)
    <2> DEFINE q == StartedStale(flag[f], now)
    <2>1. flag'[f] = Touched(q)
      BY <1>2 DEF StaleSweep
    <2>2. q \in Flag /\ q.status = "open" /\ q.state = "active" /\ q.resolveAt = now + StaleWindow
      <3>1. flag[f] \in Flag /\ flag[f].status = "open" /\ now \in Nat
        BY <1>1, <1>2 DEF Stale
      <3> QED
        BY ONLY <3>1, StartedStaleFields
    <2> HIDE DEF q
    <2>3. Open(flag[f], "idle") /\ Open(flag'[f], "active") /\ flag'[f].resolveAt = now + StaleWindow
      BY <1>1, <1>2, <2>1, <2>2, TouchedFields DEF Open, Stale
    <2>4. Delay[30] \in Nat
      BY DEF Tiers
    <2>5. flag'[f].resolveAt >= clock + (Delay[30] - Lag)
      BY <1>1, <2>3, <2>4
    <2> QED
      BY <2>3, <2>5 DEF MakesMove, Begins
  <1>3. CASE ~Stale(flag[f], now)
    <2>1. flag'[f] = flag[f]
      BY <1>3 DEF StaleSweep
    <2> QED
      BY <1>1, <2>1 DEF MakesMove, Stays
  <1> QED
    BY <1>2, <1>3

(* Requests and cron jobs together keep the promise of ReportOutcome: each *)
(* step moves every report as it allows or leaves it as it was.            *)
THEOREM ImplementsOutcome == Spec => OutcomeSpec
  <1>1. Init => Outcome!OInit
    <2> SUFFICES ASSUME Init PROVE Outcome!OInit
      OBVIOUS
    <2>1. clock = 0 /\ \A f \in Flags : flag[f].status = "absent" /\ flag[f].resolveAt = NoTime
      BY DEF Init, NoFlag
    <2>2. \A f \in Flags : Phase(f) = "absent"
      BY <2>1, PhaseOf
    <2>3. /\ [f \in Flags |-> Phase(f)] = [f \in Flags |-> "absent"]
          /\ [f \in Flags |-> flag[f].resolveAt] = [f \in Flags |-> NoTime]
      BY <2>1, <2>2
    <2> QED
      BY <2>1, <2>3, Zenon DEF Outcome!OInit
  <1>2. Inv /\ Inv' /\ [Next]_vars => [Outcome!OStep]_Outcome!ovars
    <2> SUFFICES ASSUME Inv, Inv', [Next]_vars PROVE Outcome!OStep
      OBVIOUS
    <2>1. clock' >= clock
      <3>1. CASE Tick
        BY <3>1 DEF Tick, Inv
      <3>2. CASE ~Tick
        <4>1. UNCHANGED clock
          <5>1. \A u, f, now :
                  \/ CreateFlag(u, f) \/ DeleteFlag(u, f, now) \/ Report(u, f, now)
                  => clock' = clock
            <6>1. \A u, f : CreateFlag(u, f) => clock' = clock
              BY Zenon DEF CreateFlag
            <6>2. \A u, f, now : DeleteFlag(u, f, now) => clock' = clock
              BY Zenon DEF DeleteFlag
            <6>3. \A u, f, now : Report(u, f, now) => clock' = clock
              BY Zenon DEF Report
            <6> QED
              BY ONLY <6>1, <6>2, <6>3
          <5>2. ASSUME NEW u, NEW f, NEW now, NEW r, Vote(u, f, r, now) PROVE clock' = clock
            BY <5>2, Zenon DEF Vote
          <5>3. \A u, f, now, r : DeleteReaction(u, f, r, now) => clock' = clock
            BY Zenon DEF DeleteReaction
          <5>4. \A f, now :
                  \/ AutoSolve(now) \/ StaleSweep(now) \/ AutoSolveForFlag(f, now)
                  => clock' = clock
            BY Zenon DEF AutoSolve, StaleSweep, AutoSolveForFlag
          <5>5. Publish \/ Unpublish \/ Crash \/ (\E e : Redirect(e)) => clock' = clock
            BY Zenon DEF Publish, Unpublish, Crash, Redirect
          <5> QED
            BY <3>2, <5>1, <5>2, <5>3, <5>4, <5>5, Zenon DEF Next, Request, Cron, vars
        <4> QED
          BY <4>1 DEF Inv
      <3> QED
        BY <3>1, <3>2
    <2>2. ASSUME NEW g \in Flags PROVE MakesMove(g)
      <3>1. CASE UNCHANGED <<flag, reactions>>
        BY <3>1 DEF MakesMove, Stays
      <3>2. ASSUME NEW u \in Users, NEW f \in Flags, CreateFlag(u, f) PROVE MakesMove(g)
        BY <3>2, CreateFlagMoves
      <3>3. ASSUME NEW u \in Users, NEW f \in Flags, NEW now \in Nows, DeleteFlag(u, f, now)
            PROVE  MakesMove(g)
        BY <3>3, DeleteFlagMoves
      <3>4. \A now \in Nows : now \in Nat /\ now <= clock /\ now >= clock - Lag
        BY NowsAreNat DEF Inv
      <3>5. ASSUME NEW u \in Users, NEW f \in Flags, NEW now \in Nows, Report(u, f, now)
            PROVE  MakesMove(g)
        BY <3>4, <3>5, ReportMoves
      <3>6. ASSUME NEW u \in Users, NEW f \in Flags, NEW now \in Nows,
                   NEW reaction \in {"fixed", "wrong"}, Vote(u, f, reaction, now)
            PROVE  MakesMove(g)
        <4>1. now \in Nat /\ now >= clock - Lag
          BY <3>4
        <4> QED
          BY <3>6, <4>1, VoteMoves
      <3>7. ASSUME NEW u \in Users, NEW f \in Flags, NEW now \in Nows,
                   NEW reaction \in {"fixed", "wrong", "issue_persist"},
                   DeleteReaction(u, f, reaction, now)
            PROVE  MakesMove(g)
        <4>1. now \in Nat /\ now >= clock - Lag
          BY <3>4
        <4> QED
          BY <3>7, <4>1, DeleteReactionMoves
      <3>8. ASSUME NEW now \in Nows, AutoSolve(now) PROVE MakesMove(g)
        BY <3>4, <3>8, SavedMoves DEF AutoSolve
      <3>9. ASSUME NEW now \in Nows, StaleSweep(now) PROVE MakesMove(g)
        BY <3>4, <3>9, StaleSweepMoves
      <3>10. ASSUME NEW now \in Nows, NEW f \in Flags, AutoSolveForFlag(f, now)
             PROVE  MakesMove(g)
        <4> DEFINE q == Saved(flag[f], Reconciled(flag[f], reactions, f, now, FALSE))
        <4>1. flag' = [flag EXCEPT ![f] = q] /\ reactions' = reactions
          BY <3>10 DEF AutoSolveForFlag
        <4>2. CASE g = f
          BY <3>4, <4>1, <4>2, SavedMoves DEF Inv
        <4> HIDE DEF q
        <4>3. CASE g # f
          BY <4>1, <4>3, OthersStay
        <4> QED
          BY <4>2, <4>3
      <3> QED
        BY <3>1, <3>2, <3>3, <3>5, <3>6, <3>7, <3>8, <3>9, <3>10
           DEF Next, Request, Cron, Publish, Unpublish, Redirect, Crash, Tick, vars
    <2> QED
      BY <2>1, <2>2, MovesAreSteps
  <1> QED
    BY <1>1, <1>2, Invariance, PTL DEF Spec, OutcomeSpec, Outcome!OSpec

-------------------------------------------------------------------------------
(* The books: reactions and what the ledger says of them                   *)

\* The next reaction has a new number, and each is by a user.
Counted(R, n) ==
    /\ n \in Nat /\ IsFiniteSet(R)
    /\ \A v \in R : v.id \in Nat /\ v.id <= n /\ v.by \in Users
    /\ \A v, w \in R : v.id = w.id => v = w

\* A row user u may get when the reactions are R, n of them having been made.
Permitted(u, kind, R, n) ==
    \A i \in Nat :
        /\ kind = <<"reaction", i>> => i <= n /\ \A v \in R : v.id = i => v.by = u
        /\ kind = <<"reaction-delete", i>> => i <= n /\ \A v \in R : v.id # i

Books(x, R, n) ==
    /\ x = [exp |-> x.exp, log |-> x.log]
    /\ Balanced(x, InitialExp)
    /\ \A e \in x.log : e.user \in Named /\ e.diff \in Int \ {0} /\ Permitted(e.user, e.kind, R, n)
    /\ \A e, d \in x.log : e.user = d.user /\ e.kind = d.kind => e = d

(* Awards that are permitted keep the books.                               *)
LEMMA AwardBooks ==
    ASSUME NEW x, NEW R, NEW n, Books(x, R, n), NEW u \in Users, NEW kind, NEW diff \in Int, NEW at,
           Permitted(u, kind, R, n)
    PROVE  Books(Award(x, u, kind, diff, at), R, n)
  <1> DEFINE y   == Award(x, u, kind, diff, at)
             row == LedgerRow(u, kind, diff, at)
  <1>1. CASE y = x
    BY <1>1
  <1>2. CASE y # x
    <2>1. diff # 0 /\ u \in Named /\ ~Has(x, u, kind) /\ Pays(x, y, row)
      BY <1>2, AwardRow, Zenon
    <2>2. Balanced(y, InitialExp)
      <3>1. InitialExp \in [Users -> Int] /\ Balanced(x, InitialExp)
        BY DEF Books
      <3> QED
        BY <3>1, AwardBalanced
    <2>3. y = [exp |-> y.exp, log |-> y.log]
      BY <1>2 DEF Award
    <2>4. row.user = u /\ row.kind = kind /\ row.diff = diff /\ y.log = x.log \cup {row}
      BY <2>1 DEF LedgerRow, Pays
    <2> HIDE DEF y, row
    <2>5. \A e \in y.log : e.user \in Named /\ e.diff \in Int \ {0} /\ Permitted(e.user, e.kind, R, n)
      BY <2>1, <2>4 DEF Books
    <2>6. \A e, d \in y.log : e.user = d.user /\ e.kind = d.kind => e = d
      BY <2>1, <2>4 DEF Books, Has
    <2>7. Books(y, R, n)
      BY <2>2, <2>3, <2>5, <2>6 DEF Books
    <2> QED
      BY <2>7 DEF y
  <1> QED
    BY <1>1, <1>2

(* Fewer reactions make less to ask; a new one nobody was paid for.        *)
LEMMA BooksFewer ==
    ASSUME NEW x, NEW R, NEW n, Books(x, R, n), NEW S \in SUBSET R
    PROVE  Books(x, S, n)
  BY DEF Books, Permitted

LEMMA BooksMore ==
    ASSUME NEW x, NEW R, NEW n \in Nat, Books(x, R, n), NEW v, v.id = n + 1
    PROVE  Books(x, R \cup {v}, n + 1)
  <1>1. ASSUME NEW e \in x.log PROVE Permitted(e.user, e.kind, R \cup {v}, n + 1)
    <2>1. Permitted(e.user, e.kind, R, n)
      BY DEF Books
    <2> QED
      BY <2>1 DEF Permitted
  <1> QED
    BY <1>1 DEF Books

(* Kinds of rows that are about no reaction, and those about a present one.*)
LEMMA OtherKinds ==
    ASSUME NEW u, NEW R, NEW n, NEW f
    PROVE  /\ Permitted(u, <<"flag", f>>, R, n) /\ Permitted(u, <<"flag-delete", f>>, R, n)
           /\ Permitted(u, <<"public">>, R, n)
  BY DEF Permitted

LEMMA ReactionKind ==
    ASSUME NEW R, NEW n, Counted(R, n), NEW v \in R
    PROVE  Permitted(v.by, <<"reaction", v.id>>, R, n)
  BY DEF Permitted, Counted

(* Taking a reaction back.                                                 *)
LEMMA ReversedBooks ==
    ASSUME NEW x, NEW R, NEW n, Counted(R, n), Books(x, R, n), NEW v \in R
    PROVE  Books(Reversed(x, v), R \ {v}, n) /\ TakenBack(Reversed(x, v), v)
  <1> DEFINE S     == R \ {v}
             y     == Reversed(x, v)
             grant == CHOOSE e \in x.log : e.user = v.by /\ e.kind = <<"reaction", v.id>>
  <1>1. v.id \in Nat /\ v.id <= n /\ v.by \in Users /\ Books(x, S, n)
    BY BooksFewer DEF Counted
  <1>2. \A e \in x.log : e.kind = <<"reaction", v.id>> => e.user = v.by
    BY <1>1 DEF Books, Permitted
  <1>3. \A e \in x.log : e.kind # <<"reaction-delete", v.id>>
    BY <1>1 DEF Books, Permitted
  <1>4. CASE ~Has(x, v.by, <<"reaction", v.id>>)
    <2>1. y = x
      BY <1>4 DEF Reversed
    <2>2. TakenBack(x, v)
      BY <1>2, <1>4 DEF TakenBack, Has
    <2> QED
      BY <1>1, <2>1, <2>2
  <1>5. CASE Has(x, v.by, <<"reaction", v.id>>)
    <2>1. /\ grant \in x.log /\ grant.user = v.by /\ grant.kind = <<"reaction", v.id>>
          /\ grant.diff \in Int \ {0} /\ v.by \in Named
      <3>1. \E e \in x.log : e.user = v.by /\ e.kind = <<"reaction", v.id>>
        BY <1>5 DEF Has
      <3>2. grant \in x.log /\ grant.user = v.by /\ grant.kind = <<"reaction", v.id>>
        BY <3>1, Zenon
      <3> HIDE DEF grant
      <3> QED
        BY <3>2 DEF Books
    <2>2. y = Award(x, v.by, <<"reaction-delete", v.id>>, -grant.diff, clock)
      BY <1>5, Zenon DEF Reversed
    <2> HIDE DEF grant
    <2> DEFINE kind == <<"reaction-delete", v.id>>
               diff == -grant.diff
               row  == LedgerRow(v.by, kind, diff, clock)
    <2>3. Permitted(v.by, kind, S, n)
      BY <1>1 DEF Permitted, Counted
    <2>4. diff \in Int /\ diff # 0
      BY <2>1
    <2>5. ~Has(x, v.by, kind)
      BY <1>3 DEF Has
    <2>6. row.user = v.by /\ row.kind = kind /\ row.diff = diff
      BY DEF LedgerRow
    <2> HIDE DEF kind, diff
    <2>7. y = Award(x, v.by, kind, diff, clock)
      BY <2>2 DEF kind, diff
    <2> HIDE DEF y, S
    <2>8. Books(y, S, n)
      BY <1>1, <2>3, <2>4, <2>7, AwardBooks
    <2>9. Pays(x, y, row)
      BY <2>1, <2>4, <2>5, <2>7, AwardRow, Zenon
    <2>10. y.log = x.log \cup {row}
      BY <2>9 DEF Pays
    <2> HIDE DEF row
    <2>11. TakenBack(y, v)
      <3> SUFFICES ASSUME NEW e \in y.log, e.kind = <<"reaction", v.id>>
                   PROVE  \E d \in y.log : d.user = e.user /\ d.diff = -e.diff /\ d.kind = kind
        BY DEF TakenBack, kind
      <3>1. e \in x.log
        <4>1. kind # <<"reaction", v.id>>
          BY DEF kind
        <4> QED
          BY <2>6, <2>10, <4>1
      <3>2. e.user = v.by /\ e = grant
        BY <1>2, <2>1, <3>1 DEF Books
      <3> QED
        BY <2>6, <2>10, <3>2 DEF diff
    <2> QED
      BY <2>8, <2>11 DEF y, S
  <1> QED
    BY <1>4, <1>5

(* What was taken back stays so.                                           *)
LEMMA TakenBackStays ==
    ASSUME NEW x, NEW v, TakenBack(x, v), NEW u, NEW kind, NEW diff, NEW at,
           kind # <<"reaction", v.id>>
    PROVE  TakenBack(Award(x, u, kind, diff, at), v)
  <1> DEFINE y   == Award(x, u, kind, diff, at)
             row == LedgerRow(u, kind, diff, at)
  <1>1. CASE y = x
    BY <1>1
  <1>2. CASE Pays(x, y, row)
    <2>1. y.log = x.log \cup {row} /\ row.kind = kind
      BY <1>2 DEF Pays, LedgerRow
    <2> HIDE DEF y, row
    <2>2. TakenBack(y, v)
      BY <2>1 DEF TakenBack
    <2> QED
      BY <2>2 DEF y
  <1> QED
    BY <1>1, <1>2, AwardRow, Zenon

-------------------------------------------------------------------------------
(* The steps                                                               *)

Known == {f \in Flags : flag[f].status # "absent"}

BooksInv == IsFiniteSet(Known) /\ Counted(reactions, issued) /\ Books(xp, reactions, issued)

\* What the step took back is taken back in the ledger.
Exact == \A v \in reactions \ reactions' : flag'[v.flag].status # "deleted" => TakenBack(xp', v)

(* A new reaction counts.                                                  *)
LEMMA CountedMore ==
    ASSUME NEW R, NEW n, Counted(R, n), NEW v, v.id = n + 1, v.by \in Users
    PROVE  Counted(R \cup {v}, n + 1)
  <1>1. IsFiniteSet(R \cup {v})
    BY FS_AddElement DEF Counted
  <1> QED
    BY <1>1 DEF Counted

LEMMA CountedFewer ==
    ASSUME NEW R, NEW n, Counted(R, n), NEW S \in SUBSET R
    PROVE  Counted(S, n)
  BY FS_Subset DEF Counted

(* The award for a new reaction.                                           *)
LEMMA RewardedBooks ==
    ASSUME NEW x, NEW R, NEW n, Books(x, R, n), Counted(R, n), NEW v \in R,
           v.reaction \in {"fixed", "wrong", "issue_persist"}
    PROVE  Books(Rewarded(x, v), R, n)
  <1>1. ReactionExp(v.reaction) \in Int
    BY DEF ReactionExp
  <1>2. Permitted(v.by, <<"reaction", v.id>>, R, n) /\ v.by \in Users
    BY ReactionKind DEF Counted
  <1>3. Books(Award(x, v.by, <<"reaction", v.id>>, ReactionExp(v.reaction), clock), R, n)
    BY <1>1, <1>2, AwardBooks
  <1> QED
    BY <1>3 DEF Rewarded

LEMMA KnownGrows ==
    ASSUME IsFiniteSet(Known), NEW f \in Flags, NEW q, flag' = [flag EXCEPT ![f] = q]
    PROVE  IsFiniteSet(Known')
  <1>1. IsFiniteSet(Known \cup {f})
    BY FS_AddElement
  <1>2. Known' \in SUBSET (Known \cup {f})
    BY DEF Known
  <1> QED
    BY <1>1, <1>2, FS_Subset

LEMMA CreateFlagBooks ==
    ASSUME Inv, BooksInv, NEW u \in Users, NEW f \in Flags, CreateFlag(u, f)
    PROVE  BooksInv' /\ Exact
  <1>1. /\ reactions' = reactions /\ issued' = issued
        /\ xp' = xp \/ xp' = Award(xp, u, <<"flag", f>>, 5, clock)
    BY DEF CreateFlag
  <1>2. Books(xp', reactions, issued)
    <2>1. Permitted(u, <<"flag", f>>, reactions, issued)
      BY OtherKinds
    <2>2. Books(Award(xp, u, <<"flag", f>>, 5, clock), reactions, issued)
      BY <2>1, AwardBooks DEF BooksInv
    <2> QED
      BY <1>1, <2>2 DEF BooksInv
  <1> DEFINE q == [NoFlag EXCEPT !.status = "open", !.created = clock, !.updated = clock, !.by = u]
  <1>3. IsFiniteSet(Known')
    <2>1. flag' = [flag EXCEPT ![f] = q]
      BY DEF CreateFlag
    <2> HIDE DEF q
    <2> QED
      BY <2>1, KnownGrows DEF BooksInv
  <1> QED
    BY <1>1, <1>2, <1>3 DEF BooksInv, Exact

LEMMA DeleteFlagBooks ==
    ASSUME Inv, BooksInv, NEW u \in Users, NEW f \in Flags, NEW now, DeleteFlag(u, f, now)
    PROVE  BooksInv' /\ Exact
  <1>1. /\ reactions' = {v \in reactions : v.flag # f} /\ issued' = issued
        /\ xp' = xp \/ xp' = Award(xp, u, <<"flag-delete", f>>, -5, clock)
        /\ flag' = [flag EXCEPT ![f] = [NoFlag EXCEPT !.status = "deleted"]]
    BY DEF DeleteFlag
  <1>2. Counted(reactions', issued) /\ Books(xp, reactions', issued)
    BY <1>1, CountedFewer, BooksFewer DEF BooksInv
  <1>3. Books(xp', reactions', issued)
    <2>1. Permitted(u, <<"flag-delete", f>>, reactions', issued)
      BY OtherKinds
    <2>2. Books(Award(xp, u, <<"flag-delete", f>>, -5, clock), reactions', issued)
      BY <1>2, <2>1, AwardBooks
    <2> QED
      BY <1>1, <1>2, <2>2
  <1> DEFINE q == [NoFlag EXCEPT !.status = "deleted"]
  <1>4. IsFiniteSet(Known') /\ flag'[f] = q
    <2>1. flag' = [flag EXCEPT ![f] = q]
      BY <1>1
    <2> HIDE DEF q
    <2> QED
      BY <2>1, KnownGrows DEF BooksInv, Inv
  <1>5. flag'[f].status = "deleted"
    BY <1>4 DEF NoFlag
  <1> QED
    BY <1>1, <1>2, <1>3, <1>4, <1>5 DEF BooksInv, Exact

LEMMA ReportBooks ==
    ASSUME Inv, BooksInv, NEW u \in Users, NEW f \in Flags, NEW now, Report(u, f, now)
    PROVE  BooksInv' /\ Exact
  <1> DEFINE v == NewReaction(u, f, "issue_persist", 0, 0)
  <1>1. /\ reactions' = reactions \cup {v} /\ issued' = issued + 1
        /\ xp' = Rewarded(xp, v)
    BY DEF Report
  <1>2. PICK q : flag' = [flag EXCEPT ![f] = q]
    BY DEF Report
  <1>3. v.id = issued + 1 /\ v.by = u /\ v.reaction = "issue_persist"
    BY DEF NewReaction
  <1> HIDE DEF v
  <1>4. Counted(reactions', issued') /\ Books(xp, reactions', issued')
    BY <1>1, <1>3, CountedMore, BooksMore, ZenonT(30) DEF BooksInv, Counted
  <1>5. v \in reactions'
    BY <1>1
  <1>6. Books(xp', reactions', issued')
    BY <1>1, <1>3, <1>4, <1>5, RewardedBooks
  <1>7. IsFiniteSet(Known')
    BY <1>2, KnownGrows DEF BooksInv
  <1> QED
    BY <1>1, <1>4, <1>6, <1>7 DEF BooksInv, Exact

(* A vote that is switched is taken back, and the new one rewarded.        *)
LEMMA VoteBooks ==
    ASSUME Inv, BooksInv, NEW u \in Users, NEW f \in Flags, NEW now,
           NEW reaction \in {"fixed", "wrong"}, Vote(u, f, reaction, now)
    PROVE  BooksInv' /\ Exact
  <1>1. PICK n, l, q :
          LET old == CurrentVote(u, f, n)
              x1  == IF old = {} THEN xp ELSE Reversed(xp, CHOOSE v \in old : TRUE)
              v   == NewReaction(u, f, reaction, n, l) IN
          /\ reactions' = (reactions \ old) \cup {v} /\ issued' = issued + 1
          /\ xp' = Rewarded(x1, v)
          /\ flag' = [flag EXCEPT ![f] = q]
    BY Zenon, ZenonT(30) DEF Vote
  <1> DEFINE old == CurrentVote(u, f, n)
             R   == reactions \ old
             x1  == IF old = {} THEN xp ELSE Reversed(xp, CHOOSE v \in old : TRUE)
             new == NewReaction(u, f, reaction, n, l)
  <1>2. /\ reactions' = R \cup {new} /\ issued' = issued + 1
        /\ xp' = Rewarded(x1, new)
        /\ flag' = [flag EXCEPT ![f] = q]
    BY <1>1
  <1>3. new.id = issued + 1 /\ new.by = u /\ new.reaction = reaction
    BY DEF NewReaction
  <1>4. Books(x1, R, issued) /\ \A v \in old : TakenBack(x1, v)
    <2>1. CASE old = {}
      BY <2>1 DEF BooksInv
    <2>2. CASE old # {}
      <3> DEFINE v == CHOOSE w \in old : TRUE
      <3>1. v \in old
        BY <2>2
      <3>2. \A w \in old : w = v
        <4>1. \A w \in old : /\ w \in reactions /\ w.flag = f /\ w.round = n /\ w.by = u
                             /\ w.reaction \in {"fixed", "wrong"}
          BY DEF CurrentVote, Votes
        <4> HIDE DEF old, v
        <4> QED
          BY <3>1, <4>1 DEF Inv, Sound
      <3>3. x1 = Reversed(xp, v)
        BY <2>2, Zenon
      <3>4. R = reactions \ {v} /\ v \in reactions
        <4>1. old \subseteq reactions
          BY DEF CurrentVote, Votes
        <4> HIDE DEF old, v
        <4> QED
          BY <3>1, <3>2, <4>1
      <3> HIDE DEF v, old, x1, R
      <3>5. Books(Reversed(xp, v), reactions \ {v}, issued) /\ TakenBack(Reversed(xp, v), v)
        BY <3>4, ReversedBooks DEF BooksInv
      <3> QED
        BY <3>2, <3>3, <3>4, <3>5
    <2> QED
      BY <2>1, <2>2
  <1>5. Counted(R, issued)
    BY CountedFewer DEF BooksInv
  <1> HIDE DEF new, x1, R, old
  <1>6. Counted(reactions', issued') /\ Books(x1, reactions', issued')
    <2>1. issued \in Nat
      BY DEF BooksInv, Counted
    <2> QED
      BY <1>2, <1>3, <1>4, <1>5, <2>1, CountedMore, BooksMore
  <1>7. Books(xp', reactions', issued')
    BY <1>2, <1>3, <1>6, RewardedBooks
  <1>8. IsFiniteSet(Known')
    BY <1>2, KnownGrows DEF BooksInv
  <1>9. Exact
    <2> SUFFICES ASSUME NEW v \in reactions \ reactions' PROVE TakenBack(xp', v)
      BY DEF Exact
    <2>1. v \in old /\ TakenBack(x1, v)
      BY <1>2, <1>4 DEF R
    <2>2. <<"reaction", new.id>> # <<"reaction", v.id>>
      BY <1>3 DEF BooksInv, Counted
    <2>3. xp' = x1 \/ xp' = Award(x1, new.by, <<"reaction", new.id>>, ReactionExp(new.reaction), clock)
      BY <1>2 DEF Rewarded
    <2> QED
      BY <2>1, <2>2, <2>3, TakenBackStays
  <1> QED
    BY <1>6, <1>7, <1>8, <1>9 DEF BooksInv

LEMMA DeleteReactionBooks ==
    ASSUME Inv, BooksInv, NEW u \in Users, NEW f \in Flags, NEW now, NEW reaction,
           DeleteReaction(u, f, reaction, now)
    PROVE  BooksInv' /\ Exact
  <1>1. PICK v \in reactions : reactions' = reactions \ {v} /\ xp' = Reversed(xp, v)
    BY DEF DeleteReaction, Deletable
  <1>2. PICK q : issued' = issued /\ flag' = [flag EXCEPT ![f] = q]
    BY Zenon DEF DeleteReaction
  <1>3. Books(xp', reactions', issued) /\ TakenBack(xp', v)
    BY <1>1, ReversedBooks DEF BooksInv
  <1>4. Counted(reactions', issued)
    BY <1>1, CountedFewer DEF BooksInv
  <1>5. IsFiniteSet(Known')
    BY <1>2, KnownGrows DEF BooksInv
  <1> QED
    BY <1>1, <1>2, <1>3, <1>4, <1>5 DEF BooksInv, Exact

(* The back-fill at publication: award after award.                        *)
LEMMA PublishBooks ==
    ASSUME Inv, BooksInv, Publish
    PROVE  BooksInv' /\ Exact
  <1> DEFINE F == {f \in Flags : flag[f].status \in {"open", "solved"} /\ flag[f].by = Owner}
             R == {v \in reactions : v.by = Owner}
             A == {[kind |-> <<"flag", f>>, diff |-> 5] : f \in F}
             B == {[kind |-> <<"reaction", v.id>>, diff |-> ReactionExp(v.reaction)] : v \in R}
             x == Award(xp, Owner, <<"public">>, 5, clock)
             K == A \cup B
  <1>1. xp' = InTurn(x, K, Owner, clock)
    BY Zenon DEF Publish, PublicBackfill, InTurn, Paid
  <1>2. UNCHANGED <<flag, reactions, issued>>
    BY DEF Publish
  <1>3. IsFiniteSet(K)
    <2>1. IsFiniteSet(F) /\ IsFiniteSet(R)
      <3>1. F \in SUBSET Known /\ R \in SUBSET reactions
        BY DEF Known
      <3> HIDE DEF F, R
      <3> QED
        BY <3>1, FS_Subset DEF BooksInv, Counted
    <2>2. IsFiniteSet(A)
      <3> DEFINE g == [f \in F |-> [kind |-> <<"flag", f>>, diff |-> 5]]
      <3>1. g \in Surjection(F, A)
        BY Zenon DEF Surjection
      <3> HIDE DEF g, F, A
      <3> QED
        BY <2>1, <3>1, FS_Surjection
    <2>3. IsFiniteSet(B)
      <3> DEFINE g == [v \in R |-> [kind |-> <<"reaction", v.id>>, diff |-> ReactionExp(v.reaction)]]
      <3>1. g \in Surjection(R, B)
        BY Zenon DEF Surjection
      <3> HIDE DEF g, R, B
      <3> QED
        BY <2>1, <3>1, FS_Surjection
    <2> HIDE DEF A, B
    <2> QED
      BY <2>2, <2>3, FS_Union
  <1>4. Books(x, reactions, issued)
    <2>1. Owner \in Users
      OBVIOUS
    <2>2. Permitted(Owner, <<"public">>, reactions, issued)
      BY OtherKinds
    <2> QED
      BY <2>1, <2>2, AwardBooks DEF BooksInv
  <1>5. \A k \in K : k.diff \in Int /\ Permitted(Owner, k.kind, reactions, issued)
    <2>1. ASSUME NEW k \in A PROVE k.diff \in Int /\ Permitted(Owner, k.kind, reactions, issued)
      <3>1. PICK f \in F : k = [kind |-> <<"flag", f>>, diff |-> 5]
        BY <2>1
      <3>2. Permitted(Owner, <<"flag", f>>, reactions, issued)
        BY OtherKinds
      <3> QED
        BY <3>1, <3>2
    <2>2. ASSUME NEW k \in B PROVE k.diff \in Int /\ Permitted(Owner, k.kind, reactions, issued)
      <3>1. PICK v \in R : k = [kind |-> <<"reaction", v.id>>, diff |-> ReactionExp(v.reaction)]
        BY <2>2
      <3>2. Permitted(v.by, <<"reaction", v.id>>, reactions, issued) /\ v.by = Owner
        BY ReactionKind DEF BooksInv
      <3>3. ReactionExp(v.reaction) \in Int
        BY DEF ReactionExp
      <3> QED
        BY <3>1, <3>2, <3>3
    <2> HIDE DEF A, B
    <2> QED
      BY <2>1, <2>2
  <1> DEFINE Rows == {LedgerRow(Owner, k.kind, k.diff, clock) : k \in K}
             Good == {y \in [exp : [Users -> Int], log : SUBSET (x.log \cup Rows)] :
                        Books(y, reactions, issued)}
  <1>6. x \in Good
    <2>1. x = [exp |-> x.exp, log |-> x.log] /\ x.exp \in [Users -> Int]
      BY <1>4 DEF Books, Balanced
    <2> HIDE DEF x, Rows
    <2>2. x.log \in SUBSET (x.log \cup Rows)
      OBVIOUS
    <2>3. x \in [exp : [Users -> Int], log : SUBSET (x.log \cup Rows)]
      BY <2>1, <2>2
    <2> QED
      BY <1>4, <2>3
  <1>7. ASSUME NEW y \in Good, NEW k \in K PROVE Paid(y, k, Owner, clock) \in Good
    <2> DEFINE z == Paid(y, k, Owner, clock)
    <2>1. Books(y, reactions, issued) /\ y.log \in SUBSET (x.log \cup Rows)
      BY <1>7
    <2>2. z = Award(y, Owner, k.kind, k.diff, clock)
      BY DEF Paid
    <2>3. LedgerRow(Owner, k.kind, k.diff, clock) \in Rows
      BY <1>7
    <2> HIDE DEF z, Rows, K, x
    <2>4. Owner \in Users /\ k.diff \in Int /\ Permitted(Owner, k.kind, reactions, issued)
      BY <1>5, <1>7
    <2>5. Books(z, reactions, issued)
      BY <2>1, <2>2, <2>4, AwardBooks
    <2>6. z = y \/ Pays(y, z, LedgerRow(Owner, k.kind, k.diff, clock))
      BY <2>2, AwardRow, Zenon
    <2>7. z.log \in SUBSET (x.log \cup Rows)
      BY <2>1, <2>3, <2>6 DEF Pays
    <2>8. z = [exp |-> z.exp, log |-> z.log] /\ z.exp \in [Users -> Int]
      BY <2>5 DEF Books, Balanced
    <2>9. z \in [exp : [Users -> Int], log : SUBSET (x.log \cup Rows)]
      BY <2>7, <2>8
    <2>10. z \in Good
      BY <2>5, <2>9
    <2> QED
      BY <2>10 DEF z
  <1>8. Books(xp', reactions, issued)
    <2> HIDE DEF Good, K, x
    <2>1. InTurn(x, K, Owner, clock) \in Good
      BY <1>3, <1>6, <1>7, AwardsStay
    <2> QED
      BY <1>1, <2>1 DEF Good
  <1>9. Known' = Known
    BY <1>2 DEF Known
  <1> QED
    BY <1>2, <1>8, <1>9 DEF BooksInv, Exact

(* A cron job awards nothing and takes nothing back.                       *)
LEMMA CronBooks ==
    ASSUME Inv, BooksInv, UNCHANGED <<reactions, issued, xp>>,
           \A f \in Flags : flag[f].status = "absent" => flag'[f].status = "absent"
    PROVE  BooksInv' /\ Exact
  <1>1. Known' \in SUBSET Known
    BY DEF Known
  <1>2. IsFiniteSet(Known')
    BY <1>1, FS_Subset DEF BooksInv
  <1> QED
    BY <1>2 DEF BooksInv, Exact

(* A report nobody has made is not reconciled into one.                    *)
LEMMA AbsentStays ==
    ASSUME NEW r, r.status = "absent", NEW R, NEW f, NEW now
    PROVE  /\ Saved(r, Reconciled(r, R, f, now, FALSE)).status = "absent"
           /\ ~Stale(r, now)
  <1>1. Reconciled(r, R, f, now, FALSE) = r
    <2>1. r.status # "open"
      OBVIOUS
    <2> QED
      BY <2>1, Zenon DEF Reconciled
  <1> QED
    BY <1>1 DEF Saved, Stale

LEMMA NextBooks ==
    ASSUME Inv, BooksInv, [Next]_vars
    PROVE  BooksInv' /\ Exact
  <1>1. ASSUME NEW u \in Users, NEW f \in Flags, CreateFlag(u, f) PROVE BooksInv' /\ Exact
    BY <1>1, CreateFlagBooks
  <1>2. ASSUME NEW u \in Users, NEW f \in Flags, NEW now \in Nows, DeleteFlag(u, f, now)
        PROVE  BooksInv' /\ Exact
    BY <1>2, DeleteFlagBooks
  <1>3. ASSUME NEW u \in Users, NEW f \in Flags, NEW now \in Nows, Report(u, f, now)
        PROVE  BooksInv' /\ Exact
    BY <1>3, ReportBooks
  <1>4. ASSUME NEW u \in Users, NEW f \in Flags, NEW now \in Nows,
               NEW reaction \in {"fixed", "wrong"}, Vote(u, f, reaction, now)
        PROVE  BooksInv' /\ Exact
    BY <1>4, VoteBooks
  <1>5. ASSUME NEW u \in Users, NEW f \in Flags, NEW now \in Nows,
               NEW reaction \in {"fixed", "wrong", "issue_persist"},
               DeleteReaction(u, f, reaction, now)
        PROVE  BooksInv' /\ Exact
    BY <1>5, DeleteReactionBooks
  <1>6. ASSUME Publish PROVE BooksInv' /\ Exact
    BY <1>6, PublishBooks
  <1>7. ASSUME NEW now \in Nows, AutoSolve(now) PROVE BooksInv' /\ Exact
    <2>1. \A f \in Flags : flag[f].status = "absent" => flag'[f].status = "absent"
      BY <1>7, AbsentStays DEF AutoSolve
    <2> QED
      BY <1>7, <2>1, CronBooks DEF AutoSolve
  <1>8. ASSUME NEW now \in Nows, StaleSweep(now) PROVE BooksInv' /\ Exact
    <2>1. \A f \in Flags : flag[f].status = "absent" => flag'[f].status = "absent"
      BY <1>8, AbsentStays DEF StaleSweep
    <2> QED
      BY <1>8, <2>1, CronBooks DEF StaleSweep
  <1>9. ASSUME NEW now \in Nows, NEW g \in Flags, AutoSolveForFlag(g, now)
        PROVE  BooksInv' /\ Exact
    <2> DEFINE q == Saved(flag[g], Reconciled(flag[g], reactions, g, now, FALSE))
    <2>1. flag' = [flag EXCEPT ![g] = q] /\ flag[g].status = "absent" => q.status = "absent"
      BY <1>9, AbsentStays DEF AutoSolveForFlag
    <2> HIDE DEF q
    <2>2. \A f \in Flags : flag[f].status = "absent" => flag'[f].status = "absent"
      BY <1>9, <2>1, AbsentStays DEF AutoSolveForFlag, Inv
    <2> QED
      BY <1>9, <2>2, CronBooks DEF AutoSolveForFlag
  <1>10. CASE UNCHANGED <<flag, reactions, issued, xp>>
    BY <1>10, CronBooks
  <1> QED
    BY <1>1, <1>2, <1>3, <1>4, <1>5, <1>6, <1>7, <1>8, <1>9, <1>10, Zenon
       DEF Next, Request, Cron, Unpublish, Redirect, Crash, Tick, vars

(* The books hold at the start: nothing was reported, nothing earned.      *)
LEMMA InitBooks == Init => BooksInv
  <1> SUFFICES ASSUME Init PROVE BooksInv
    OBVIOUS
  <1>1. Known = {} /\ IsFiniteSet({}) /\ reactions = {} /\ issued = 0
    BY FS_EmptySet DEF Init, Known, NoFlag
  <1>2. xp = [exp |-> InitialExp, log |-> {}]
    BY DEF Init
  <1>3. Balanced(xp, InitialExp)
    <2>1. xp.log = {} /\ xp.exp = InitialExp /\ InitialExp \in [Users -> Int]
      BY <1>2
    <2>2. ASSUME NEW u \in Users PROVE Earned(xp, u) = 0
      <3>1. {e \in xp.log : e.user = u} = {}
        BY <2>1
      <3>2. Earned(xp, u) = Gained({e \in xp.log : e.user = u})
        BY Zenon DEF Earned, Gained
      <3> QED
        BY <3>1, <3>2, GainedByNone
    <2>3. Countable(xp.log)
      BY <1>1, <2>1 DEF Countable
    <2> QED
      BY <2>1, <2>2, <2>3 DEF Balanced
  <1>4. Books(xp, reactions, issued)
    BY <1>2, <1>3 DEF Books
  <1> QED
    BY <1>1, <1>4 DEF BooksInv, Counted

LEMMA BooksAreKept == Spec => [](Inv /\ BooksInv)
  <1>1. Init => BooksInv
    BY InitBooks
  <1>2. Inv /\ BooksInv /\ [Next]_vars => BooksInv'
    BY NextBooks
  <1> QED
    BY <1>1, <1>2, Invariance, PTL DEF Spec

(* However reports are made, voted on, switched, withdrawn and rewarded at *)
(* publication, the total of every user is what the ledger's rows say.     *)
THEOREM LedgerHolds == Spec => []LedgerAddsUp
  <1>1. BooksInv => LedgerAddsUp
    BY DEF BooksInv, Books, Balanced, LedgerAddsUp
  <1> QED
    BY <1>1, BooksAreKept, PTL

(* A reaction that is withdrawn, or a vote that is switched, leaves        *)
(* nothing of its reward in the ledger, whatever became of the arcade      *)
(* between the two.                                                        *)
THEOREM Reversals == Spec => ReversalIsExact
  <1>1. Inv /\ BooksInv /\ [Next]_vars =>
          [\A v \in reactions \ reactions' :
             flag'[v.flag].status # "deleted" => TakenBack(xp', v)]_vars
    BY NextBooks DEF Exact
  <1> QED
    BY <1>1, BooksAreKept, PTL DEF Spec, ReversalIsExact
===============================================================================
