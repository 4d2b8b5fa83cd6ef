------------------------- MODULE MC_WorkflowSession -------------------------
(* Three instances in one run, because all that a session has to do is too  *)
(* much for one of them.  Each bounds what else may happen in it.           *)
EXTENDS WorkflowSession

CONSTANTS question, viewer, dialog

VARIABLE instance

OneQuestion == {question}
ThreeRequests == {question, viewer, dialog}

MCInit == SessionInit /\ instance \in {"questions", "claims", "surface"}

\* These requests build one component at most.
BuildOnce(S) == \A r \in S : built[r] <= 1 /\ (r \in building => built[r] = 0)

\* Nothing has gone wrong with a claim.
ClaimsKept == orphaned = {} /\ \A r \in Runs : claimOf[r].phase # "expired" /\ summary[r] # "failing"

(* Two runs, a question of the session's own and a viewer; what is on the   *)
(* screen reports or is replaced, but not disposed.                        *)
QuestionsNext ==
    /\ SessionNext
    /\ started' <= 2 /\ stage'[dialog] = "new" /\ gone' = {}
    /\ BuildOnce(Requests)' /\ ClaimsKept'

(* Three runs of commands in a generation that ends, and an operator who    *)
(* answers by command: claims go through all they can.                     *)
ClaimsNext == UNCHANGED interactionVars /\ SessionNext /\ exclusive' = 1..started' /\ generation' <= 1

(* Three requests for the surface by itself, one of which may build twice.   *)
SurfaceNext == InteractionNext /\ BuildOnce({question, dialog})' /\ UNCHANGED <<registryVars, pumpVars>>

MCNext ==
    \/ instance = "questions" /\ QuestionsNext /\ UNCHANGED instance
    \/ instance = "claims" /\ ClaimsNext /\ UNCHANGED instance
    \/ instance = "surface" /\ SurfaceNext /\ UNCHANGED instance

MCSpec == MCInit /\ [][MCNext]_<<sessionVars, instance>>
=============================================================================
