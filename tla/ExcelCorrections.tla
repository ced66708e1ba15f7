-------------------------- MODULE ExcelCorrections --------------------------
(***************************************************************************)
(* Corrections of published records from a workbook.  The handler reads    *)
(* the records, waits for a language model, and stores a preview; another  *)
(* request applies some of its proposals.  What the model answers is any   *)
(* assignment of workbook rows to records.                                 *)
(***************************************************************************)
EXTENDS PersonalPromotion

VARIABLES
    previews,   \* the requests: id -> row; "asking": in memory, across the await
    corrected   \* the corrections applied: change -> the records they were computed from

correctionVars == <<previews, corrected>>

CorrectionInit == previews = NoRows /\ corrected = NoRows

\* correctionAccess, as far as the Session decides: a closed one is for its owner
\* and for administrators.
Correctable(s) == s \in DOMAIN remote /\ remote[s].status \in {"active", "closed"}

\* POST /excel-corrections/preview up to the await
RequestPreview(s) ==
    /\ Correctable(s)
    /\ DOMAIN Live(remote[s].logs) # {}
    /\ previews' = Put(previews, Cardinality(DOMAIN previews) + 1,
          [session |-> s, status |-> "asking", target |-> Live(remote[s].logs)])
    /\ UNCHANGED <<personalVars, corrected>>

\* buildCorrectionPreview: each row of the workbook is matched with at most one
\* record of those read before the await, and no record is used twice.
BuildCorrectionPreview(p, matched) == Restrict(previews[p].target, matched)

\* The rest of the handler; without proposals nothing is stored.
StorePreview(p, matched) ==
    /\ previews[p].status = "asking"
    /\ matched # {}
    /\ matched \subseteq DOMAIN previews[p].target
    /\ previews' = [previews EXCEPT ![p].status = "stored",
                                    ![p].target = BuildCorrectionPreview(p, matched)]
    /\ UNCHANGED <<personalVars, corrected>>

\* The language model fails, the process stops, or the preview expires.
PreviewEnds(p) ==
    /\ previews[p].status # "ended"
    /\ previews' = [previews EXCEPT ![p].status = "ended", ![p].target = NoRows]
    /\ UNCHANGED <<personalVars, corrected>>

TargetIsThere(p, l) == ~remote[previews[p].session].logs[l].deleted

\* The record is there, not deleted, and has the version of the proposal.
TargetIsCurrent(p, l) ==
    LET log == remote[previews[p].session].logs[l]
    IN  ~log.deleted /\ Len(log.history) = Len(previews[p].target[l].history)

\* POST /excel-corrections/apply: all that is selected, or nothing.
ApplyPreview(p, selected) ==
    LET s == previews[p].session
    IN  /\ previews[p].status = "stored"
        /\ Correctable(s)
        /\ selected # {}
        /\ selected \subseteq DOMAIN previews[p].target
        /\ \A l \in selected : TargetIsCurrent(p, l)
        /\ remote' = [remote EXCEPT ![s].logs =
              [l \in DOMAIN @ |-> IF l \in selected THEN Changed(@[l], FALSE) ELSE @[l]]]
        /\ changes' = changes + 1
        /\ accepted' = accepted \cup {changes'}
        /\ previews' = [previews EXCEPT ![p].status = "applied"]
        /\ corrected' = Put(corrected, changes',
              [session |-> s, target |-> Restrict(previews[p].target, selected)])
        /\ UNCHANGED <<snapshot, copies, seen, originals>>
=============================================================================
