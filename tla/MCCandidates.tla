---------------------------- MODULE MCCandidates ----------------------------
(* Small instances of what is made in the background and asked for: changes *)
(* that race with requests (Candidates), the lists that are made of every   *)
(* combination of a few arcades and of a few users, and two posts that wait *)
(* for one place in a batch of the translation worker.                      *)
EXTENDS Candidates, PeopleLists, MCCommunityTranslation

Machine(series, cabinet, quantity) == [series |-> series, cabinet |-> cabinet, quantity |-> quantity]
Plain == [public |-> TRUE, closed |-> FALSE, country |-> "KR", at |-> 3, named |-> TRUE,
          address |-> <<"seoul", "mapo">>, games |-> <<Machine("s", "a", 1)>>,
          fields |-> {"exact"}, photo |-> 3]
MCOld == [Plain EXCEPT !.photo = 20]
MCHidden == [MCOld EXCEPT !.public = FALSE]
MCFar == [Plain EXCEPT !.at = 7, !.photo = 30, !.fields = {"exact"},
                       !.games = <<Machine("s", "a", 2), Machine("s", "a", 2)>>]
MCNameless == [Plain EXCEPT !.named = FALSE, !.address = <<>>, !.fields = {"none"}]
MCLooks == {Plain, MCOld, MCHidden,
            [Plain EXCEPT !.at = 1, !.photo = NoPhoto, !.fields = {"words", "prefix"},
                          !.games = <<Machine("s", "b", 1), Machine("t", "a", 1)>>],
            [Plain EXCEPT !.at = 2, !.photo = 20, !.country = "JP", !.address = <<"mapo", "seo">>,
                          !.fields = {"none"}],
            MCFar, MCNameless,
            [Plain EXCEPT !.closed = TRUE, !.photo = NoPhoto, !.at = NoPlace]}

MCQuery == [here |-> 0, filters |-> {}, words |-> <<>>, country |-> NoCountry, limit |-> NoLimit,
            expand |-> FALSE]
MCQueries == {MCQuery,
              [MCQuery EXCEPT !.filters = {[series |-> "s", cabinet |-> "a"]}, !.limit = 5],
              [MCQuery EXCEPT !.expand = TRUE],
              [MCQuery EXCEPT !.words = <<"seo", "mapo">>, !.country = "KR"],
              [MCQuery EXCEPT !.words = <<"mapo">>]}
MCStarts == {<<"seo", "seoul">>, <<"seo", "seo">>, <<"seoul", "seoul">>, <<"mapo", "mapo">>}

Stay(arcade, age, gained) == [arcade |-> arcade, age |-> age, gained |-> gained]
Gain(kind, age, diff) == [kind |-> kind, age |-> age, diff |-> diff]
Face == [fields |-> {"exact"}, withdrawn |-> FALSE, private |-> FALSE, days |-> 40, exp |-> 12,
         visits |-> {Stay(1, 0, 5), Stay(2, 10, 5), Stay(1, 40, 2)},
         log |-> {Gain("a", 0, 5), Gain("b", 10, 5), Gain("c", 40, 2)}]
MCFaces == {Face,
            [Face EXCEPT !.fields = {"within"}, !.withdrawn = TRUE],
            [Face EXCEPT !.fields = {"within"}, !.private = TRUE,
                         !.visits = {Stay(1, 3, 5), Stay(3, 8, 5), Stay(2, 9, 5)}],
            [Face EXCEPT !.fields = {"prefix"}, !.days = 0, !.exp = 298,
                         !.visits = {Stay(2, 5, 5), Stay(3, 9, 5)},
                         !.log = {Gain("a", 5, 300), Gain("b", 1, -2)}]}

VARIABLE focus

MCFoci == {"race", "lists", "people", "posts"}

MCCandidatesInit ==
    /\ CandidatesInit /\ PeopleListsInit /\ Init /\ focus \in MCFoci
    /\ focus # "people" => faces = [u \in Users |-> Face]
    /\ focus = "posts" => live = [h \in Halls |-> Plain]
    /\ \A h \in Halls \ {1} : live[h] # MCNameless
    /\ focus = "people" => live = <<Plain, MCFar, MCHidden>>
    /\ focus = "race" => live = [h \in Halls |-> IF h = 1 THEN MCOld ELSE MCHidden]

MCArcadeNext ==
    /\ CandidatesNext /\ UNCHANGED <<peopleVars, vars>>
    /\ writes' # writes => live' # live
    /\ focus = "race" => \A h \in Halls : live'[h] = live[h] \/ (h = 1 /\ live'[h] \in {MCOld, MCHidden})
    /\ focus = "lists" =>
         /\ writes' = 0 /\ (cache # Nothing => cache' = cache)
         /\ \E r \in Readers : \A s \in Readers : s # r => reader'[s] = NoRequest

MCUserNext ==
    /\ PeopleListsNext /\ UNCHANGED <<candidateVars, vars>>
    /\ faces' # faces => search.pc = "ids" /\ search.then = faces

(* Nothing happens to the posts when their time is over.                    *)
MCPostsNext == Next \/ (clock = MaxTime /\ UNCHANGED vars)

MCCandidatesNext ==
    /\ UNCHANGED focus
    /\ CASE focus = "people" -> MCUserNext
         [] focus = "posts"  -> MCPostsNext /\ UNCHANGED <<candidateVars, peopleVars>>
         [] OTHER            -> MCArcadeNext

(* The fairness of CommunityTranslation, where there are posts.             *)
MCPostsFairness ==
    /\ WF_vars(focus = "posts" /\ \E w \in Runs : StartRun(w))
    /\ \A w \in Runs : WF_vars(focus = "posts" /\ Worker(w))
    /\ WF_vars(focus = "posts" /\ \E q \in pending : UpdatePost(q))
    /\ WF_vars(focus = "posts" /\ Tick)

MCSpec ==
    /\ MCCandidatesInit
    /\ [][MCCandidatesNext]_<<candidateVars, peopleVars, vars, focus>>
    /\ CandidatesFairness /\ MCPostsFairness

-------------------------------------------------------------------------------
(* What the run checks.                                                     *)

(* The rankings over the arcades there are (ranking.go).                    *)
RankingsAgree == focus = "people" /\ search = NoSearch => BoardsAgree(live)

(* The lists, the search, the photo campaign and the rankings show what     *)
(* there is, each in its own way, and agree; the stored arcades are sound.  *)
ListsAddUp == focus # "posts" =>
    /\ CandidatesTypeOK /\ CandidatesInv /\ CacheIsCurrent
    /\ PagesAddUp /\ SearchIsBest /\ PhotosAreWanted /\ RankingsAgree

(* Every request is answered, with what was so when it was made, whatever   *)
(* changed between its statements and whoever's build it waited for.        *)
AnswersHold == AnswersAreCurrent /\ SearchIsHonest /\ RequestsEnd
=============================================================================
