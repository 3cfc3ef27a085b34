----------------------------- MODULE Candidates -----------------------------
(***************************************************************************)
(* The cached snapshot of the public arcades that the lists are answered   *)
(* from (handlers/arcade/query/arcade_candidate_cache.go).                 *)
(*                                                                         *)
(* A writer commits, and only then its hook raises the generation and drops*)
(* the entry.  Readers who find no entry of the generation they loaded     *)
(* share one build of it, and ask again if the generation has moved by the *)
(* time they have an answer.  A build reads the arcades and, after that,   *)
(* the rows they point to, which never change.                             *)
(***************************************************************************)
EXTENDS ArcadeLists

CONSTANTS
    Looks,              \* what an arcade may look like
    Readers, Writers,
    Limits,             \* limits asked for in searches
    Queries,            \* queries for arcades nearby
    MaxWrites,
    Nothing

VARIABLES
    live,       \* the arcades as they are in the database
    writes,     \* number of commits
    hook,       \* the commit whose hook a writer still has to run, and how far it is
    done,       \* commits whose hooks have ended
    gen,        \* the generation
    cache,      \* the stored entry, or Nothing
    flight,     \* flight[g]: the build of generation g under way, or Nothing
    reader      \* what each request has

candidateVars == <<live, writes, hook, done, gen, cache, flight, reader>>

Gens == 0..MaxWrites

(* What is stored and handed out: the arcades as of a commit, built in a   *)
(* generation.                                                             *)
Snapshots == [commit : 0..MaxWrites, db : [Halls -> Looks]]
Entries == [gen : Gens, commit : 0..MaxWrites, db : [Halls -> Looks], fresh : BOOLEAN]

Hooks == [commit : 1..MaxWrites, pc : {"raise", "drop"}]

ASSUME CandidatesAssumption ==
    MaxWrites \in Nat /\ Nothing \notin Entries /\ Nothing \notin Hooks

NoRequest == [pc |-> "idle", gen |-> 0, got |-> Nothing]

CandidatesInit ==
    /\ live \in [Halls -> Looks]
    /\ writes = 0 /\ done = {} /\ gen = 0
    /\ hook = [w \in Writers |-> Nothing]
    /\ cache = Nothing
    /\ flight = [g \in Gens |-> Nothing]
    /\ reader = [r \in Readers |-> NoRequest]

-------------------------------------------------------------------------------
(* Writers.                                                                *)

Commit(w, h, look) ==
    /\ hook[w] = Nothing /\ writes < MaxWrites
    /\ live' = [live EXCEPT ![h] = look]
    /\ writes' = writes + 1
    /\ hook' = [hook EXCEPT ![w] = [commit |-> writes + 1, pc |-> "raise"]]
    /\ UNCHANGED <<done, gen, cache, flight, reader>>

Raise(w) ==
    /\ hook[w] # Nothing /\ hook[w].pc = "raise"
    /\ gen' = gen + 1
    /\ hook' = [hook EXCEPT ![w].pc = "drop"]
    /\ UNCHANGED <<live, writes, done, cache, flight, reader>>

(* The writer is answered after this.                                      *)
Drop(w) ==
    /\ hook[w] # Nothing /\ hook[w].pc = "drop"
    /\ cache' = Nothing
    /\ done' = done \cup {hook[w].commit}
    /\ hook' = [hook EXCEPT ![w] = Nothing]
    /\ UNCHANGED <<live, writes, gen, flight, reader>>

-------------------------------------------------------------------------------
(* Readers.                                                                *)

Ask(r) ==
    /\ reader[r].pc = "idle"
    /\ reader' = [reader EXCEPT ![r].pc = "load"]
    /\ UNCHANGED <<live, writes, hook, done, gen, cache, flight>>

Load(r) ==
    /\ reader[r].pc = "load"
    /\ reader' = [reader EXCEPT ![r].gen = gen, ![r].pc = "look"]
    /\ UNCHANGED <<live, writes, hook, done, gen, cache, flight>>

Usable(r) == cache # Nothing /\ cache.gen = reader[r].gen /\ cache.fresh

LookUp(r) ==
    /\ reader[r].pc = "look"
    /\ reader' = [reader EXCEPT ![r] =
         IF Usable(r) THEN [@ EXCEPT !.pc = "check", !.got = cache] ELSE [@ EXCEPT !.pc = "join"]]
    /\ UNCHANGED <<live, writes, hook, done, gen, cache, flight>>

(* Builds are shared by the requests of one generation.                    *)
Join(r) ==
    LET g == reader[r].gen IN
    /\ reader[r].pc = "join"
    /\ reader' = [reader EXCEPT ![r].pc = "wait"]
    /\ flight' = IF flight[g] # Nothing THEN flight
                 ELSE [flight EXCEPT ![g] = [pc |-> "arcades", got |-> Nothing]]
    /\ UNCHANGED <<live, writes, hook, done, gen, cache>>

Entry(g, got) == [gen |-> g, commit |-> got.commit, db |-> got.db, fresh |-> TRUE]

ReadArcades(g) ==
    /\ flight[g] # Nothing /\ flight[g].pc = "arcades"
    /\ flight' = [flight EXCEPT ![g] =
         [pc |-> "rows", got |-> [commit |-> writes, db |-> live]]]
    /\ UNCHANGED <<live, writes, hook, done, gen, cache, reader>>

ReadRows(g) ==
    /\ flight[g] # Nothing /\ flight[g].pc = "rows"
    /\ flight' = [flight EXCEPT ![g] =
         [pc |-> IF gen = g THEN "store" ELSE "deliver", got |-> Entry(g, flight[g].got)]]
    /\ UNCHANGED <<live, writes, hook, done, gen, cache, reader>>

Store(g) ==
    /\ flight[g] # Nothing /\ flight[g].pc = "store"
    /\ cache' = flight[g].got
    /\ flight' = [flight EXCEPT ![g].pc = "deliver"]
    /\ UNCHANGED <<live, writes, hook, done, gen, reader>>

Waiting(g) == {r \in Readers : reader[r].pc = "wait" /\ reader[r].gen = g}

Deliver(g) ==
    /\ flight[g] # Nothing /\ flight[g].pc = "deliver"
    /\ reader' = [r \in Readers |->
         IF r \in Waiting(g) THEN [reader[r] EXCEPT !.pc = "check", !.got = flight[g].got]
         ELSE reader[r]]
    /\ flight' = [flight EXCEPT ![g] = Nothing]
    /\ UNCHANGED <<live, writes, hook, done, gen, cache>>

(* A read of the database fails: so do all who waited.                     *)
FailBuild(g) ==
    /\ flight[g] # Nothing /\ flight[g].pc \in {"arcades", "rows"}
    /\ reader' = [r \in Readers |-> IF r \in Waiting(g) THEN NoRequest ELSE reader[r]]
    /\ flight' = [flight EXCEPT ![g] = Nothing]
    /\ UNCHANGED <<live, writes, hook, done, gen, cache>>

(* Mutant: what was built is answered.                                     *)
StillCurrent_Skip(r) == TRUE

StillCurrent(r) == gen = reader[r].got.gen

Check(r) ==
    /\ reader[r].pc = "check"
    /\ reader' = [reader EXCEPT ![r] =
         IF StillCurrent(r) THEN [@ EXCEPT !.pc = "done"]
         ELSE [@ EXCEPT !.pc = "load", !.got = Nothing]]
    /\ UNCHANGED <<live, writes, hook, done, gen, cache, flight>>

Answer(r) ==
    /\ reader[r].pc = "done"
    /\ reader' = [reader EXCEPT ![r] = NoRequest]
    /\ UNCHANGED <<live, writes, hook, done, gen, cache, flight>>

(* The entry is older than half an hour.                                   *)
Age ==
    /\ cache # Nothing /\ cache.fresh
    /\ cache' = [cache EXCEPT !.fresh = FALSE]
    /\ UNCHANGED <<live, writes, hook, done, gen, flight, reader>>

BuildStep(g) == ReadArcades(g) \/ ReadRows(g) \/ Store(g) \/ Deliver(g)
ReaderStep(r) == Load(r) \/ LookUp(r) \/ Join(r) \/ Check(r)

CandidatesNext ==
    \/ \E w \in Writers : Raise(w) \/ Drop(w) \/ \E h \in Halls, look \in Looks : Commit(w, h, look)
    \/ \E g \in Gens : BuildStep(g) \/ FailBuild(g)
    \/ \E r \in Readers : Ask(r) \/ ReaderStep(r) \/ Answer(r)
    \/ Age

(* Threads run: a request that was begun goes on, and so does a build.     *)
CandidatesFairness ==
    /\ \A r \in Readers : WF_candidateVars(ReaderStep(r))
    /\ \A g \in Gens : WF_candidateVars(BuildStep(g))

CandidatesSpec == CandidatesInit /\ [][CandidatesNext]_candidateVars /\ CandidatesFairness

-------------------------------------------------------------------------------
(* Properties.                                                             *)

(* The type invariant.                                                     *)
CandidatesTypeOK ==
    /\ live \in [Halls -> Looks] /\ writes \in 0..MaxWrites /\ done \subseteq 1..writes
    /\ gen \in Gens /\ gen <= writes
    /\ \A r \in Readers : reader[r].pc \in {"check", "done"} => reader[r].got # Nothing

(* An answer holds every change that was itself answered by then, however  *)
(* builds, changes and other requests overlap (GetArcadeCandidates: no     *)
(* request may trust a build or an entry of an old generation).            *)
AnswersAreCurrent ==
    [][\A r \in Readers : reader[r].pc = "check" /\ reader'[r].pc = "done" =>
         \A c \in done : c <= reader[r].got.commit]_candidateVars

(* When no hook is under way, an entry of the present generation is what   *)
(* the database holds (Store after the check of the generation is no step  *)
(* of its own: an entry may be stored after it was dropped).               *)
CacheIsCurrent ==
    cache # Nothing /\ cache.gen = gen /\ (\A w \in Writers : hook[w] = Nothing) =>
        cache.db = live

(* The commits whose hooks have raised the generation.                     *)
Raised == {c \in 1..writes : \A w \in Writers : hook[w] # [commit |-> c, pc |-> "raise"]}

(* An entry was made of the database as it was; one of the present         *)
(* generation holds every commit whose hook has raised it.                 *)
Sound(e) ==
    /\ e.gen <= gen /\ e.commit <= writes
    /\ e.commit = writes => e.db = live
    /\ e.gen = gen => \A c \in Raised : c <= e.commit

Builds ==
    [pc : {"arcades"}, got : {Nothing}] \cup [pc : {"rows"}, got : Snapshots]
        \cup [pc : {"store", "deliver"}, got : Entries]

Requests ==
    [pc : {"idle", "load", "look", "join", "wait", "check", "done"}, gen : Gens,
     got : Entries \cup {Nothing}]

(* The generation counts the hooks that raised it.                         *)
CommitsCounted ==
    /\ live \in [Halls -> Looks] /\ writes \in 0..MaxWrites /\ gen \in Gens
    /\ gen = Cardinality(Raised) /\ done \subseteq Raised

(* No two writers run the hook of one commit.                              *)
HooksApart ==
    /\ hook \in [Writers -> Hooks \cup {Nothing}]
    /\ \A w \in Writers : hook[w] # Nothing =>
         /\ hook[w].commit <= writes
         /\ \A v \in Writers \ {w} : hook[v] # Nothing => hook[v].commit # hook[w].commit

CacheSound == cache \in Entries \cup {Nothing} /\ (cache # Nothing => Sound(cache))

BuildsSound ==
    /\ flight \in [Gens -> Builds \cup {Nothing}]
    /\ \A g \in Gens : flight[g] # Nothing =>
         /\ g <= gen
         /\ flight[g].pc = "rows" => Sound(Entry(g, flight[g].got))
         /\ flight[g].pc \in {"store", "deliver"} => Sound(flight[g].got)

RequestsSound ==
    /\ reader \in [Readers -> Requests]
    /\ \A r \in Readers :
         /\ reader[r].gen <= gen
         /\ reader[r].got # Nothing => Sound(reader[r].got)
         /\ reader[r].pc \in {"check", "done"} => reader[r].got # Nothing

(* What is stored, under way or handed out is sound, whichever generation  *)
(* it is of.                                                               *)
CandidatesInv == CommitsCounted /\ HooksApart /\ CacheSound /\ BuildsSound /\ RequestsSound

(* Every request is answered, or fails, once changes stop: it asks again   *)
(* each time the generation moved, never for ever (the loop of             *)
(* GetArcadeCandidates).                                                   *)
RequestsEnd ==
    \A r \in Readers : reader[r].pc = "load" ~> reader[r].pc \in {"done", "idle"}

Answered == {reader[r].got.db : r \in {s \in Readers : reader[s].pc = "done"}}

(* The pages of a list of arcades nearby show, together, every public open *)
(* arcade that meets the query, once, the nearest first; what is said of   *)
(* each country agrees with them (ListArcadesBySeriesAndLocation,          *)
(* ListArcades).                                                           *)
PagesAddUp ==
    \A db \in Answered, q \in Queries :
        LET rows == Nearby(db, q)
            pages(rs) == [n \in 1..LastPage(rs) |-> Page(rs, n)]
            totals == CountryTotals(db, q, rows) IN
        /\ \A rs \in {rows, Open(db, q.country)} :
             FlattenSeq(pages(rs)) = rs /\ \A n \in DOMAIN pages(rs) : pages(rs)[n] # <<>>
        /\ ~q.expand => \A i \in DOMAIN rows : \A j \in 1..i :
              Distance(db[rows[j]].at, q.here) <= Distance(db[rows[i]].at, q.here)
        /\ \A h \in Halls : (\E i \in DOMAIN rows : rows[i] = h) <=>
              /\ db[h].public /\ IsNear(db[h], q)
              /\ \A f \in q.filters : \E g \in Range(db[h].games) :
                    g.series = f.series /\ f.cabinet \in {NoCabinet, g.cabinet}
        /\ \A c \in DOMAIN totals : \A i \in {j \in DOMAIN rows : db[rows[j]].country = c} :
              Distance(db[totals[c].nearest].at, q.here) <= Distance(db[rows[i]].at, q.here)

(* A search answers the best of all matches, as if all had been sorted and *)
(* then cut (buildArcadeResults keeps a sorted list of the limit's length).*)
SearchIsBest ==
    \A db \in Answered, here \in {NoPlace, 0}, limit \in Limits :
        LET best == SetToSortSeq({h \in Halls : db[h].public /\ Found(db[h], here)},
                           LAMBDA h, k : SearchOrder(db, here, h, k)) IN
        SearchArcades(db, here, limit) = SubSeq(best, 1, IF limit > Len(best) THEN Len(best) ELSE limit)

(* The photo campaign never asks for photos of an arcade that is hidden or *)
(* closed by now, though the arcades come from a snapshot                  *)
(* (ListPhotoCampaign, GetPhotoCampaignStatus).                            *)
PhotosAreWanted ==
    \A db \in Answered, here \in {NoPlace, 0} :
        LET rows == PhotoTargets(db, live, here) IN
        /\ \A i \in DOMAIN rows :
             /\ live[rows[i]].public /\ ~live[rows[i]].closed
             /\ live[rows[i]].photo = NoPhoto \/ live[rows[i]].photo >= StaleAfter
        /\ here = NoPlace => \A j \in DOMAIN rows : \A i \in 1..j :
             live[rows[i]].photo = NoPhoto \/ live[rows[j]].photo # NoPhoto
===============================================================================
