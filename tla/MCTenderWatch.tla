---------------------------- MODULE MCTenderWatch ----------------------------
EXTENDS Collectors, TLC

D(end, name) == [f \in Fields |-> IF f = "end_date" THEN end ELSE name]
MCDetails == {D(1, 1), D(2, 1)}

\* Two pages of one line each; then the second line has another fingerprint.
L(id, fp) == [id |-> id, fp |-> fp]
Small == <<{L(1, 1)}, {L(2, 1)}>>
MCListings == {Small, <<{L(1, 1)}, {L(2, 2), L(3, 1)}>>}

Number == Field("number", FALSE)
MCPageContract == [currentPage |-> Number, totalPages |-> Number, totalItems |-> Number,
                   itemsInPage |-> Number]
Page == [k \in DOMAIN MCPageContract |-> "number"]
Without(f, key) == [k \in DOMAIN f \ {key} |-> f[k]]
MCPageShapes == {Page, Without(Page, "currentPage"), Without(Page, "totalPages")}
  \cup {[Page EXCEPT ![key] = "null"] : key \in {"totalPages", "totalItems", "itemsInPage"}}
  \cup {[Page EXCEPT !["totalPages"] = "string"]}
\* A page may say that it is the only one.
MCExtraClaims == {[count |-> 1, total |-> 1, pages |-> 1]}

MCItemContract == [quantity |-> Field("number", FALSE), rate |-> Field("number", TRUE)]
MCItemShapes == {[quantity |-> "number"], [quantity |-> "string", rate |-> "null"]}

MCDetailsContract == [id |-> Number, cpvCode |-> Field("null", FALSE)]
MCDetailsShapes == {[id |-> "number", cpvCode |-> "null"], [id |-> "number", cpvCode |-> "string"],
                    [cpvCode |-> "null"]}

\* Three items, two on a page; the source of World Bank projects fills its
\* last page.
I(id, design) == [id |-> id, design |-> design]
MCFeeds == [worldbank |-> <<I(1, FALSE), I(2, FALSE), I(3, FALSE), I(4, FALSE)>>,
            design    |-> <<I(1, TRUE), I(2, FALSE), I(3, TRUE)>>,
            plan      |-> <<I(1, FALSE), I(2, FALSE), I(3, FALSE)>>]
Paged == [currentPage |-> Number, totalPages |-> Number]
MCFeedContract == [worldbank |-> [total |-> Field("string", FALSE), projects |-> Field("object", FALSE),
                                  facets |-> Field("object", FALSE)],
                   design |-> Paged, plan |-> Paged]
MCFeedItemContract == [k \in Kinds |-> [id |-> Field("string", FALSE)]]
MCFeedShapes == [worldbank |-> {[total |-> "string", projects |-> "object", facets |-> "object"],
                                [total |-> "string", projects |-> "object"],
                                [projects |-> "object", facets |-> "object"]},
                 design |-> {[currentPage |-> "number", totalPages |-> "number"],
                             [currentPage |-> "number", totalPages |-> "null"],
                             [currentPage |-> "number", totalPages |-> "string"]},
                 plan |-> {[currentPage |-> "number", totalPages |-> "number"],
                           [totalPages |-> "string", currentPage |-> "number"],
                           [totalPages |-> "number"]}]
MCFeedItemShapes == [k \in Kinds |-> {[id |-> "string"], [id |-> "number"]}]
\* A collector shares only the queue with the rest: it is followed alone.
Collecting == collector.k > 0 => ~tracked /\ ijob.k = 0 /\ source.edits = 0 /\ clock = 0

\* The import and the checks share only the stored lines and the queue: the
\* checks are followed where nothing, or everything, has been imported.
Apart == tracked => ijob.k = 0 \/ (ijob.k = 1 /\ imp.status = "complete")
Held == {w \in Workers : wk[w].drifts # << >>}
Attempts == {j \in DOMAIN jobs : jobs[j].attempt > 0}
\* The values of the fields are alike, and so are the listings.
First == versions[1] = D(1, 1) /\ (source.edits = 0 => source.listing = Small)
\* At most three edits, drifts, closed exceptions and failed attempts; two
\* when an edited tender is checked, one when the lines have been imported,
\* none beside a second open check, which the theorems cover.
Spent == source.edits + Len(outbox) + Cardinality(Held) + closes + Cardinality(Attempts)
Budget == Spent <= IF ~tracked THEN 3 ELSE IF ~OneByOne THEN 0
                   ELSE IF lines # {} THEN 1 ELSE IF source.edits > 0 THEN 2 ELSE 3
Symmetry == Permutations(Workers)
=============================================================================
