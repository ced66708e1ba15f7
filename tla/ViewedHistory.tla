---------------------------- MODULE ViewedHistory ---------------------------
(***************************************************************************)
(* What a public share promises the page that opened it: the page shows    *)
(* moments of the Session and never goes back to an earlier one, sees      *)
(* nothing that came after the share's viewers were cut off, and is told   *)
(* that there is nothing to see only when the share is past, for good.     *)
(***************************************************************************)
EXTENDS Integers, Tables

VARIABLES
    head,     \* the number of the newest moment
    moments,  \* number -> the records as that moment left them
    share,    \* "none" before it is issued, then "open", then "past"
    end,      \* the last moment the share's viewers may see, or -1
    cursor,   \* the moment the page is at
    shown,    \* the records it shows
    gone      \* it says that there is nothing to see

historyVars == <<head, moments>>
shareVars == <<share, end>>
pageVars == <<cursor, shown, gone>>
vars == <<historyVars, shareVars, pageVars>>

Init ==
    /\ head = 0 /\ moments = [n \in {0} |-> NoRows]
    /\ share = "none" /\ end = -1
    /\ cursor = 0 /\ shown = NoRows /\ gone = FALSE

\* The moments that a page at its cursor may be at next.
Ahead == {n \in cursor..head : end # -1 => n <= end}

\* The share's viewers are cut off: they see nothing after moment n.
EndAt(n) ==
    /\ share' = IF share = "none" THEN "none" ELSE "past"
    /\ end' = IF end = -1 THEN n ELSE end

\* One moment follows: a change, or the end of the Session and of its shares.
Pass ==
    /\ head' = head + 1
    /\ DOMAIN moments' = 0..head'
    /\ \A n \in 0..head : moments'[n] = moments[n]
    /\ UNCHANGED shareVars \/ EndAt(head')
    /\ UNCHANGED pageVars

Issue ==
    /\ share = "none" /\ share' = "open"
    /\ UNCHANGED <<historyVars, end, pageVars>>

\* The share is past, and its viewers are cut off at once or after a while.
Expire ==
    /\ share # "none"
    /\ EndAt(head) \/ (share' = "past" /\ UNCHANGED end)
    /\ UNCHANGED <<historyVars, pageVars>>

Show ==
    /\ ~gone /\ share # "none"
    /\ cursor' \in Ahead /\ shown' = moments[cursor']
    /\ UNCHANGED <<historyVars, shareVars, gone>>

TurnAway ==
    /\ ~gone /\ share = "past"
    /\ gone' = TRUE /\ shown' = NoRows /\ cursor' \in Ahead
    /\ UNCHANGED <<historyVars, shareVars>>

Next == Pass \/ Issue \/ Expire \/ Show \/ TurnAway

Spec == Init /\ [][Next]_vars
=============================================================================
