----------------------------- MODULE MCUploads -----------------------------
(* Small instances of Uploads for TLC: one title, two renditions. *)
EXTENDS Uploads, TLC

CONSTANTS m1

\* A video to transcode, and a playlist of a bundle that comes in chunks as well.
Film == [movie |-> m1, asset |-> None]
OneFile == {Film}
JustMaster == {Master}
TwoFiles == {Film, [movie |-> m1, asset |-> Master]}

Title(status, videos, objects, sessions, kept) ==
    [movie |-> [x \in Movies |-> status], video |-> videos, store |-> [x \in Movies |-> objects],
     session |-> sessions, chunks |-> kept, scratch |-> [x \in Movies |-> {}]]
Before(status, archived) == <<[movie |-> m1, status |-> status, archived |-> archived, renditions |-> {}]>>
Sent == [file |-> Film, status |-> "IN_PROGRESS", age |-> 0]
\* A new title; one whose upload is complete but for its last call; one whose run
\* died half-way; a bundle that has all its files, or lacks the master
\* and its segments.
New == Title("DRAFT", <<>>, {}, <<>>, <<>>)
Arrived == Title("DRAFT", <<>>, {}, <<Sent>>, <<Chunks>>)
Orphaned == Title("DRAFT", Before("PROCESSING", TRUE), {Original, Index(2), Segments(2)}, <<>>, <<>>)
Whole == Title("UPLOADING", <<>>, {Original, Master, Index(1), Segments(1)}, <<>>, <<>>)
Torn == Title("UPLOADING", <<>>, {Original, Index(1)},
              <<[file |-> [movie |-> m1, asset |-> Master], status |-> "IN_PROGRESS", age |-> 0]>>, <<Chunks>>)
Beginnings == {New, Arrived, Orphaned, Whole, Torn}
\* What a retry may start from.
Retries == {Orphaned}
=============================================================================
