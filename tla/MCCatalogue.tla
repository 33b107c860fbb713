----------------------------- MODULE MCCatalogue -----------------------------
(* Small instances of Catalogue for TLC: one catalogue, seen at ten kinds of work. *)
EXTENDS Catalogue, TLC

Lowers == [n \in {"Mya", "mya", "Aung"} |-> IF n = "Aung" THEN "aung" ELSE "mya"]

Film(status, genre, found, duration, views, bought, used) ==
    [series |-> None, status |-> status, access |-> "FREE", genre |-> genre, found |-> found, duration |-> duration,
     views |-> views, bought |-> bought, pictures |-> used, links |-> {}]
Part(s, status, genre, used) == [Film(status, genre, "no", 0, 0, 0, used) EXCEPT !.series = s, !.access = "SUBSCRIPTION"]
Show(status, genre, used) == [status |-> status, access |-> "SUBSCRIPTION", genre |-> genre, found |-> "no", pictures |-> used, links |-> {}]
Person(kind, name, face) == [kind |-> kind, name |-> name, face |-> face]
Said(x, parent) == [on |-> "movie", title |-> x, parent |-> parent, visible |-> TRUE, owner |-> "ann"]
Track(label, ass, default, key) ==
    [video |-> 1, label |-> label, language |-> <<Word("en")>>, ass |-> ass, default |-> default, key |-> key]
Empty(doing, spent) ==
    [series |-> <<>>, movie |-> <<>>, video |-> <<>>, subtitle |-> <<>>, named |-> <<>>, book |-> <<>>, comment |-> <<>>,
     master |-> <<>>, rendition |-> {}, source |-> {}, doors |-> doing, requests |-> spent]
With(scene, shows, films) == [scene EXCEPT !.series = shows, !.movie = films, !.master = [m \in DOMAIN films |-> None]]

Films == <<Film("PUBLISHED", "Mya", "title", 0, 1, 2, {}), Film("PUBLISHED", "mya", "text", 2, 1, 0, {}), Film("DRAFT", "Aung", "title", 2, 2, 1, {}),
           Film("PUBLISHED", "Aung", "title", 2, 0, 1, {})>>
Asked(sort, search, page, limit, genres, role) ==
    [of |-> "movie", role |-> role, status |-> None, series |-> None, access |-> None, genres |-> genres, low |-> None, high |-> None,
     search |-> search, sort |-> sort, page |-> page, limit |-> limit]
Lists == {Asked("recent", FALSE, 2, 2, {}, "USER"), Asked("relevance", TRUE, 1, 2, {}, "USER"), Asked("relevance", TRUE, 2, 2, {}, "ADMIN"),
          Asked("relevance", TRUE, 3, 1, {}, "USER"), Asked("viewed", FALSE, 1, 2, {}, "ADMIN"), Asked("bought", TRUE, 2, 1, {"Mya"}, "USER"),
          Asked("relevance", FALSE, 1, 3, {"Mya", "Aung"}, "USER"),
          [Asked("recent", FALSE, 1, 3, {}, "USER") EXCEPT !.low = 3, !.high = 1, !.access = "FREE"],
          [Asked("recent", FALSE, 1, 2, {}, "ADMIN") EXCEPT !.of = "series", !.status = "PUBLISHED"]}

Browsing == With(Empty({"list", "updateMovie", "removeMovie"}, 1), <<>>, Films)
OneShow(doing, spent) == [With(Empty(doing, spent), <<Show("PUBLISHED", "Aung", Pictures), Show("DRAFT", "mya", Pictures)>>,
                            <<Part(1, "PUBLISHED", "Mya", Pictures), Part(1, "DRAFT", "mya", {}), Film("PUBLISHED", "Aung", "no", 2, 0, 1, {})>>)
                   EXCEPT !.video = <<[movie |-> 1, ready |-> TRUE, duration |-> 1]>>,
                          !.subtitle = <<Track(<<Word("english")>>, FALSE, TRUE, 11)>>,
                          !.comment = <<[Said(1, None) EXCEPT !.on = "series"], Said(1, None)>>,
                          !.master = [m \in 1 .. 3 |-> IF m = 1 THEN [media |-> <<>>, tagged |-> FALSE] ELSE None], !.source = {<<1, 11>>}]
Watching == OneShow({"title", "updateSeries", "stream", "placeholder"}, 0)
Clearing == OneShow({"removeSeries", "updateMovie", "placeholder", "createMovie", "createSeries"}, 1)
Filtering == OneShow({"facets", "updateSeries"}, 1)
Measuring == [With(Empty({"backfill", "updateMovie", "removeMovie"}, 0), <<>>, <<Film("PUBLISHED", "Mya", "no", 0, 0, 0, Pictures)>>)
                EXCEPT !.video = <<[movie |-> 1, ready |-> TRUE, duration |-> 0]>>, !.master = <<[media |-> <<>>, tagged |-> FALSE]>>]
Authors == [Empty({"named", "rename", "removeNamed", "book"}, 1) EXCEPT !.named = <<Person("author", "Mya", CHOOSE k \in Pictures : TRUE)>>,
              !.book = <<[author |-> "Mya", credit |-> 1, cover |-> None, links |-> {}]>>]
Talking == [With(Empty({"comment", "removeComment", "moderate", "thread", "removeMovie"}, 0), <<Show("PUBLISHED", "Aung", {})>>, <<Film("PUBLISHED", "Mya", "no", 2, 0, 0, {})>>)
              EXCEPT !.comment = <<Said(1, None), Said(1, 1)>>]
Subtitled(doing, spent) ==
    [With(Empty(doing, spent), <<>>, <<Film("PUBLISHED", "Mya", "no", 2, 0, 0, {})>>)
       EXCEPT !.video = <<[movie |-> 1, ready |-> TRUE, duration |-> 2]>>,
              !.subtitle = <<Track(<<Word("english")>>, FALSE, TRUE, 11), Track(<<Word("english"), Number(2)>>, FALSE, FALSE, 12)>>,
              !.source = {<<1, 11>>, <<1, 12>>, <<1, 13>>},
              !.master = <<[media |-> <<>>, tagged |-> FALSE]>>]
Tracks == [Subtitled({"subtitle", "removeMovie"}, 1) EXCEPT !.subtitle = <<Track(<<Word("english"), Number(2)>>, FALSE, FALSE, 12)>>]
Defaults == Subtitled({"updateSubtitle", "setDefault"}, 1)
Removals == Subtitled({"removeSubtitle", "republish"}, 0)
Alike == Permutations(Procs)
Beginnings == {Browsing, Watching, Clearing, Filtering, Measuring, Authors, Talking, Tracks, Defaults, Removals}
=============================================================================
