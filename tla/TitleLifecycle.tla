--------------------------- MODULE TitleLifecycle ---------------------------
(***************************************************************************)
(* What an upload promises of a title, whichever way its files come and    *)
(* whatever fails: the statuses it may go through, who may move it where,  *)
(* and that what viewers are offered is in the store, or part of something *)
(* whose sending broke off.  Uploads implements it.                        *)
(***************************************************************************)
CONSTANTS
    Movies,
    Assets,         \* the objects of a title
    Statuses,
    AdminStatuses,  \* the statuses an administrator chooses
    None

StatusesKnown ==
    /\ AdminStatuses \subseteq Statuses /\ None \notin Statuses
    /\ {"PUBLISHED", "DRAFT", "UPLOADING", "READY_TO_PUBLISH", "FAILED"} \subseteq Statuses

VARIABLES
    status,         \* status[m]: the status of the title, or None without it
    offered,        \* offered[m]: the objects its playable videos name
    stored,         \* stored[m]: the objects under its prefixes
    partial         \* partial[m]: the objects somebody began to send and never said were all there

lifecycleVars == <<status, offered, stored, partial>>

Init ==
    /\ status \in [Movies -> Statuses \cup {None}]
    /\ stored \in [Movies -> SUBSET Assets]
    /\ offered = [m \in Movies |-> {}]
    /\ partial \in [Movies -> SUBSET Assets]

Become(m, s) ==
    /\ status' = [status EXCEPT ![m] = s]
    /\ UNCHANGED <<offered, stored, partial>>

\* Somebody begins to send files, or more of them.
Begin(m) ==
    /\ partial' \in [Movies -> SUBSET Assets]
    /\ partial[m] \subseteq partial'[m] /\ \A n \in Movies \ {m} : partial'[n] = partial[n]
    /\ UNCHANGED <<status, offered, stored>>

\* A file arrives; a late one may belong to a title that is gone.  It may be the first
\* of several, or the last, and only what is there counts as sent.
Store(m, o) ==
    /\ o \in Assets
    /\ stored' = [stored EXCEPT ![m] = @ \cup {o}]
    /\ partial' \in [Movies -> SUBSET Assets]
    /\ partial[m] \ partial'[m] \subseteq stored'[m] /\ \A n \in Movies \ {m} : partial'[n] = partial[n]
    /\ UNCHANGED <<status, offered>>

\* A video becomes playable: the files it adds are all there but for what broke off.
Offer(m) ==
    /\ status[m] # None
    /\ offered' \in [Movies -> SUBSET Assets] /\ \A n \in Movies \ {m} : offered'[n] = offered[n]
    /\ offered[m] \subseteq offered'[m] /\ offered'[m] \subseteq offered[m] \cup stored[m] \cup partial[m]
    /\ UNCHANGED <<status, stored, partial>>

\* A run that could not publish its title takes its video back.
Retract(m) ==
    /\ offered' \in [Movies -> SUBSET Assets] /\ \A n \in Movies \ {m} : offered'[n] = offered[n]
    /\ offered'[m] \subseteq offered[m]
    /\ UNCHANGED <<status, stored, partial>>

\* The pipeline publishes a title it has made playable, whatever its status is.
GoLive(m) == status[m] # None /\ offered[m] # {} /\ Become(m, "PUBLISHED")

\* A run that failed leaves a draft.
FallBack(m) == status[m] # None /\ Become(m, "DRAFT")

\* A bundle made elsewhere is accepted or refused in the bulk flow's own statuses.
Accept(m) == status[m] \in {"UPLOADING", "FAILED"} /\ offered[m] # {} /\ Become(m, "READY_TO_PUBLISH")
Refuse(m) == status[m] \in {"UPLOADING", "FAILED"} /\ Become(m, "FAILED")

Decide(m, s) == status[m] # None /\ s \in AdminStatuses /\ Become(m, s)

\* The row and its videos go first, the files afterwards.
Remove(m) ==
    /\ status[m] # None
    /\ status' = [status EXCEPT ![m] = None]
    /\ offered' = [offered EXCEPT ![m] = {}]
    /\ UNCHANGED <<stored, partial>>
Wipe(m) ==
    /\ status[m] = None
    /\ stored' = [stored EXCEPT ![m] = {}]
    /\ UNCHANGED <<status, offered, partial>>

Next ==
    \E m \in Movies :
       \/ \E o \in Assets : Store(m, o)
       \/ Begin(m) \/ Offer(m) \/ Retract(m)
       \/ GoLive(m) \/ FallBack(m) \/ Accept(m) \/ Refuse(m)
       \/ \E s \in AdminStatuses : Decide(m, s)
       \/ Remove(m) \/ Wipe(m)

Spec == Init /\ [][Next]_lifecycleVars

-----------------------------------------------------------------------------
(* Properties *)

\* What viewers are offered is in the store, or part of what somebody broke off sending,
\* and nothing is offered of a title that is gone.
OfferIsBacked ==
    /\ \A m \in Movies : offered[m] \subseteq stored[m] \cup partial[m]
    /\ \A m \in Movies : status[m] = None => offered[m] = {}
TypeOK ==
    /\ status \in [Movies -> Statuses \cup {None}]
    /\ offered \in [Movies -> SUBSET Assets]
    /\ stored \in [Movies -> SUBSET Assets]
    /\ partial \in [Movies -> SUBSET Assets]

\* A title that is gone stays gone: no late step of a run or a finalize brings it back.
GoneStaysGone == [][\A m \in Movies : status[m] = None => status'[m] = None]_lifecycleVars
=============================================================================
