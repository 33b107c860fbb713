----------------------------- MODULE MCPresence -----------------------------
(* Small instances of Presence: a user with two tabs, another user, a member of
   the staff. *)
EXTENDS Presence, TLC

CONSTANTS a1, a2, b1, w1, ann, bob, wim

MCOwner == a1 :> ann @@ a2 :> ann @@ b1 :> bob @@ w1 :> wim
=============================================================================
