--------------------------- MODULE MCArcadeSections ---------------------------
(* A small instance of ArcadeSections.  Its behaviours are those in which   *)
(* one group of operations is used; the whole of them at once is too large. *)
EXTENDS ArcadeSections, TLC

CONSTANTS ann, bob, n1, n2, seoul, r1

\* Kilometres: those below 50 are in one country, the first with a city.
MCCountryOf == [p \in Places |-> IF p < 50 THEN "KR" ELSE "JP"]
MCCityCountry == [c \in Cities |-> "KR"]
MCNearestCity == [p \in Places |-> IF p = 0 THEN seoul ELSE NoCity]
MCBody(n, p, c) == [name |-> n, place |-> p, city |-> c]
MCEdits  == {MCBody(Keep, 0, Keep), MCBody(Keep, 1, NoCity), MCBody(n2, Keep, Keep)}

VARIABLE focus  \* the group of operations in use

MCParts == [basics |-> {"basic", "game"},
            photos |-> {"basic", "photo"},
            texts  |-> {"basic", "gtk", "memo"},
            pay    |-> {"basic", "game", "hour", "sns"}]

\* "basics": requests that race; the last of its rows is an edit's, and ends it.
\* "photos": atoms, time.  "texts": the other parts, reports.  "pay": parts that
\* are paid, publication, time.
Focused ==
    /\ Exists \/ (Exists' => Current'.name = n1)
    /\ \A p \in AllParts : ptr'[p] = ptr[p] \/ p \in MCParts[focus]
    /\ Len(log) < MaxMoves
    /\ Len(log') = MaxMoves => \E r \in Requests : BasicCommitted(r)
    /\ focus # "texts"  => reports' = reports
    /\ focus # "basics" => \A r \in Requests : req'[r].kind # "basic"
    /\ focus # "photos" => atoms' = atoms /\ arcade'.closed = arcade.closed
    /\ focus = "photos" => arcade'.proof = arcade.proof
    /\ focus # "pay"    => arcade'.country = arcade.country \/ arcade.country = NoCountry
    /\ focus \in {"basics", "texts"} => clock' = clock

MCInit == Init /\ focus \in DOMAIN MCParts
MCNext == Next /\ Focused /\ UNCHANGED focus
MCSpec == MCInit /\ [][MCNext]_<<vars, focus>>
===============================================================================
