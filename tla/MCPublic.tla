------------------------------ MODULE MCPublic ------------------------------
(***************************************************************************)
(* Small instances of Public: one page with its share, or the opens of     *)
(* several shares, the restores, or the settings.                          *)
(***************************************************************************)
EXTENDS Public, TLC

CONSTANTS MaxHead, MaxFaults, MaxAuth, MaxInstance, MaxBackups, MaxVersion

VARIABLE focus

\* The Logs of the history in the order of their first events, which is always
\* the same; where there are two of them, one fault less.
First == CHOOSE l \in Log : TRUE
Logs(h) == {h[i].log : i \in DOMAIN h} \cap Log
InOrder(h) == \A n \in DOMAIN h : Logs(SubSeq(h, 1, n)) # {} => First \in Logs(SubSeq(h, 1, n))

Bounded ==
    /\ Len(history') <= MaxHead /\ InOrder(history')
    /\ faults' <= IF Cardinality(Logs(history')) > 1 THEN MaxFaults - 1 ELSE MaxFaults
    /\ db'.auth <= MaxAuth /\ Max(used') <= MaxInstance
    /\ Cardinality(backups') <= MaxBackups /\ version' <= MaxVersion

\* With the settings, one restore and nothing else.
OneRestore ==
    /\ db'.auth <= 2 /\ db'.entries = {} /\ version' = 1 /\ failed' = {}
    /\ \A j \in DOMAIN safety' \cup {p.id : p \in {preview'} \ {None}} :
          j = CHOOSE first \in Job : TRUE
    /\ preview' = None => preview = None

MCInit ==
    /\ Init
    /\ focus \in {"viewing", "opens", "restores", "settings"}
    /\ page.step = IF focus = "viewing" THEN "info" ELSE "closed"

MCNext ==
    /\ \/ /\ focus = "viewing"
          /\ SessionStep \/ ViewerStep
          /\ UNCHANGED recoveryVars
       \/ /\ focus \in {"viewing", "opens"}
          /\ ShareStep
          /\ focus = "viewing" => DOMAIN shares' \subseteq {Link}
          /\ UNCHANGED recoveryVars
       \/ /\ focus = "opens"
          /\ OpenStep
          /\ UNCHANGED recoveryVars
       \/ /\ focus \in {"restores", "settings"}
          /\ RecoveryStep \/ SettingStep
          /\ IF focus = "restores" THEN db'.answers = NoRows ELSE OneRestore
          /\ UNCHANGED sharingVars
    /\ Bounded
    /\ UNCHANGED focus

\* Every step that Fairness asks for is a step of MCNext: none raises a bound.
MCSpec == MCInit /\ [][MCNext]_<<vars, focus>> /\ Fairness
=============================================================================
