----------------------------- MODULE MCSharing ------------------------------
(***************************************************************************)
(* Small instances of Sharing: two accounts around one Session, with       *)
(* shares or with friends.                                                 *)
(***************************************************************************)
EXTENDS Sharing, TLC

CONSTANTS MaxGrants, MaxDisabled

VARIABLE focus

\* Everything with joining; joining to read, and writing; a personal Session only.
MCScope ==
    LET all == [personal |-> FALSE, owned |-> TRUE, editor |-> TRUE, joinAs |-> "editor",
                all |-> TRUE, selected |-> {}, edit |-> FALSE, delete |-> FALSE]
    IN  {all,
         [all EXCEPT !.editor = FALSE, !.joinAs = "viewer", !.edit = TRUE],
         [all EXCEPT !.all = FALSE, !.selected = {"personal"}, !.personal = TRUE]}

Bounded ==
    /\ Cardinality(DOMAIN grants') <= MaxGrants
    /\ focus = "shares" => \A u \in DOMAIN members' : members'[u].by = "invite" =>
                              members'[u].role # "viewer"
    /\ Cardinality(disabled') <= IF focus = "friends" THEN MaxDisabled ELSE 0

UserSymmetry == Permutations(User)

MCInit == Init /\ focus \in {"shares", "friends"}

MCNext ==
    /\ \/ focus = "shares" /\ ShareStep
       \/ focus = "friends" /\ FriendStep
       \/ SessionStep
    /\ Bounded
    /\ UNCHANGED focus

MCSpec == MCInit /\ [][MCNext]_<<vars, focus>>
=============================================================================
