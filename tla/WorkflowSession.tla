-------------------------- MODULE WorkflowSession --------------------------
(***************************************************************************)
(* One Pi session as the workflows extension sees it (workflows/index.ts):  *)
(* background runs, the handoff controller that asks the operator what a    *)
(* run wants to know and launches the continuation                          *)
(* (operator/operator-handoff-controller.ts, operator-handoff-service.ts),  *)
(* and the operator's one surface, on which other features ask as well.     *)
(*                                                                         *)
(* The transitions of a claim, file by file and against other operators,    *)
(* are modelled in HandoffClaim; here a transition is one step that works   *)
(* or fails, and what matters is which run a claim is left to.  Every       *)
(* handoff has one question.                                               *)
(***************************************************************************)
EXTENDS BackgroundRuns, OperatorInteraction

CONSTANTS Questions,   \* the requests of the handoff controller
          Faults       \* bound: what goes wrong with claims, see FaultKinds

\* A claim expires, a release fails, an error line is survived, a run escapes.
FaultKinds == {"expiry", "release", "error", "escape"}

ASSUME QuestionsAssumption == Questions \subseteq Requests
ASSUME FaultsAssumption == Faults \subseteq FaultKinds

VARIABLES scope,       \* sessionRunIds
          offered,     \* runs that settled and await the operator: they have a handoff
          claimOf,     \* the claim of each handoff: how far, and for which continuation
          summary,     \* what the folder of a continuation says of it
          bound,       \* continuations that have bound their claim
          orphaned,    \* handoffs whose claim could not be released, or whose run escaped
          answers,     \* the run that each continuation answers
          noticed,     \* #deferredNotices
          asking       \* the pump that awaits an answer: #activePump

continuationVars == <<offered, claimOf, summary, bound, orphaned, answers>>
pumpVars == <<scope, continuationVars, noticed, asking>>
sessionVars == <<registryVars, interactionVars, pumpVars>>

NoClaim == [phase |-> "absent", run |-> None]
NoPump == [run |-> None, gen |-> None, request |-> Nobody, auto |-> FALSE]

SessionInit ==
    /\ RegistryInit /\ InteractionInit
    /\ scope = {}
    /\ offered = {} /\ bound = {} /\ orphaned = {}
    /\ claimOf = [r \in Runs |-> NoClaim]
    /\ summary = [r \in Runs |-> "running"]
    /\ answers = [r \in Runs |-> None]
    /\ noticed = {}
    /\ asking = NoPump

-----------------------------------------------------------------------------
\* No microtask of the surface is due: a request has come up or waits, a
\* disposal has been looked at, and a component that is being built is mounted,
\* for the factories of these features build it at once.
Turn == silent = {} /\ building = {} /\ \A r \in Requests : stage[r] # "queued"

(* session_start: the scope of the automatic pumps starts empty.            *)
SessionStarts ==
    /\ Turn /\ awaited = Idle
    /\ StartSession
    /\ scope' = {}
    /\ UNCHANGED <<interactionVars, continuationVars, noticed, asking>>

SessionShutdown == Turn /\ Shutdown /\ UNCHANGED <<interactionVars, pumpVars>>
SessionShutdownReturns == Turn /\ ShutdownReturns /\ UNCHANGED <<interactionVars, pumpVars>>

(* /workflows run.  Whether Pi is idle may be anything at any time, so a    *)
(* guard that asks for it may fail.  The run joins the scope of the         *)
(* automatic pumps when it has started, which a run of a revoked lease      *)
(* does not; nothing reads the scope before.                               *)
Command(r) ==
    /\ Turn /\ Launch(r)
    /\ scope' = scope \cup {r}
    /\ UNCHANGED <<interactionVars, continuationVars, noticed, asking>>

ToolCall(r) == Turn /\ Attach(r) /\ UNCHANGED <<interactionVars, pumpVars>>
CommandStop(r) == Turn /\ Stop(r) /\ UNCHANGED <<interactionVars, pumpVars>>

(* A tool's run has started and joins the scope, whatever the session is.   *)
RunStarts(r) ==
    /\ Turn /\ r \in Unsettled \ (scope \cup exclusive)
    /\ scope' = scope \cup {r}
    /\ UNCHANGED <<registryVars, interactionVars, continuationVars, noticed, asking>>

(* A run settles; if it is no continuation, it may await the operator.      *)
RunSettles(r) ==
    /\ Turn /\ Settle(r) /\ answers[r] = None
    /\ offered' \in {offered, offered \cup {r}}
    /\ UNCHANGED <<interactionVars, scope, claimOf, summary, bound, orphaned, answers, noticed, asking>>

Receipts(r) == Turn /\ (BeginReceipt(r) \/ EndReceipt(r)) /\ UNCHANGED <<interactionVars, pumpVars>>

-----------------------------------------------------------------------------
(* projectWorkflowHandoffState(): the claim decides, and once it is bound   *)
(* the summary of the run that it names, where an error line reads as a     *)
(* failure until there is a result.                                        *)
Projected(o) ==
    IF o \notin offered THEN "none"
    ELSE CASE claimOf[o].phase = "absent" -> "pending"
           [] claimOf[o].phase = "prestart" -> "running"
           [] claimOf[o].phase = "expired" -> "retryable"
           [] OTHER -> CASE summary[claimOf[o].run] = "running" -> "running"
                         [] summary[claimOf[o].run] = "completed" -> "resolved"
                         [] OTHER -> "retryable"

\* The claim is still the one that this continuation was launched with.
KeepsClaim(c) == answers[c] # None /\ claimOf[answers[c]].run = c

\* Whether releaseWorkflowHandoffClaim() works.
Releases == {TRUE} \cup {works \in BOOLEAN : "release" \in Faults}

(* The continuation binds the claim it carries, however old it is.          *)
BindsClaim(c) ==
    /\ Turn /\ c \in Unsettled \ bound /\ KeepsClaim(c)
    /\ bound' = bound \cup {c}
    /\ claimOf' = [claimOf EXCEPT ![answers[c]].phase = "bound"]
    /\ UNCHANGED <<registryVars, interactionVars, scope, offered, summary, orphaned, answers, noticed, asking>>

(* An agent call fails and the script survives it: an error line.           *)
SurvivesError(c) ==
    /\ "error" \in Faults /\ Turn
    /\ c \in Unsettled \cap bound /\ summary[c] = "running"
    /\ summary' = [summary EXCEPT ![c] = "failing"]
    /\ UNCHANGED <<registryVars, interactionVars, scope, offered, claimOf, bound, orphaned, answers, noticed, asking>>

(* Nobody has bound the claim within its five minutes.                      *)
ClaimExpires(o) ==
    /\ "expiry" \in Faults /\ Turn /\ claimOf[o].phase = "prestart"
    /\ claimOf' = [claimOf EXCEPT ![o].phase = "expired"]
    /\ UNCHANGED <<registryVars, interactionVars, scope, offered, summary, bound, orphaned, answers, noticed, asking>>

(* A continuation settles with a result: it fails if it could not bind its  *)
(* claim, which its finalizer then releases if it can; a completed one may   *)
(* await the operator in turn.                                             *)
ContinuationSettles(c) ==
    LET o == answers[c]
    IN  /\ Turn /\ Settle(c) /\ o # None
        /\ \E how \in IF c \in bound THEN {"completed", "failed"} ELSE {"failed"} :
              /\ summary' = [summary EXCEPT ![c] = how]
              /\ offered' \in {offered} \cup (IF how = "completed" THEN {offered \cup {c}} ELSE {})
        /\ \E works \in Releases :
              IF c \in bound \/ ~KeepsClaim(c) THEN UNCHANGED <<claimOf, orphaned>>
              ELSE IF works THEN claimOf' = [claimOf EXCEPT ![o] = NoClaim] /\ UNCHANGED orphaned
              ELSE orphaned' = orphaned \cup {o} /\ UNCHANGED claimOf
        /\ UNCHANGED <<interactionVars, scope, bound, answers, noticed, asking>>

(* The promise of a continuation is rejected, see WorkflowRun: there is no   *)
(* result, and nobody releases the claim.                                  *)
ContinuationEscapes(c) ==
    /\ "escape" \in Faults /\ Turn /\ Settle(c) /\ answers[c] # None
    /\ orphaned' = IF KeepsClaim(c) THEN orphaned \cup {answers[c]} ELSE orphaned
    /\ UNCHANGED <<interactionVars, scope, offered, claimOf, summary, bound, answers, noticed, asking>>

-----------------------------------------------------------------------------
\* The verdicts of pumpGuard() for a pump of a generation: Pi may be busy.
Guard(g) == IF IsCurrent(g) THEN {"ready", "busy"} ELSE {"stale"}

(* What a pump may raise: an automatic one the pending handoffs of its      *)
(* session, one the operator asked for any that is actionable.             *)
Candidates(auto) ==
    IF auto THEN {o \in scope : Projected(o) = "pending"}
            ELSE {o \in Runs : Projected(o) \in {"pending", "retryable"}}

(* A pump raises a question: the newest candidate, or the one that the      *)
(* operator named.                                                         *)
PumpAsks(o, auto, q) ==
    /\ Turn /\ HasLease /\ asking = NoPump
    /\ o \in Candidates(auto) /\ (auto => \A p \in Candidates(auto) : p <= o)
    /\ q \in Questions /\ Request(q)
    /\ asking' = [run |-> o, gen |-> lease, request |-> q, auto |-> auto]
    /\ UNCHANGED <<registryVars, scope, continuationVars, noticed>>

(* An automatic pump that finds retryable handoffs only says so, once for   *)
(* each failed continuation.                                               *)
PumpDefers(o) ==
    /\ Turn /\ HasLease /\ asking = NoPump
    /\ Candidates(TRUE) = {}
    /\ o \in scope \ noticed /\ Projected(o) = "retryable"
    /\ noticed' = noticed \cup {o}
    /\ UNCHANGED <<registryVars, interactionVars, scope, continuationVars, asking>>

(* Mutant: a refused launch leaves the claim where it is.                   *)
KeepClaim(o) ==
    /\ claimOf' = [claimOf EXCEPT ![o] = [phase |-> "prestart", run |-> None]]
    /\ UNCHANGED orphaned

(* releaseUnboundClaim(): whatever the handoff was before, it is pending    *)
(* again.  A release that fails leaves a claim for which nobody runs.       *)
ReleaseClaim(o) ==
    \E works \in Releases :
       IF works THEN claimOf' = [claimOf EXCEPT ![o] = NoClaim] /\ orphaned' = orphaned \ {o}
       ELSE /\ claimOf' = [claimOf EXCEPT ![o] = [phase |-> "prestart", run |-> None]]
            /\ orphaned' = orphaned \cup {o}

(* The service has claimed the handoff: launch() gives a continuation, is   *)
(* refused because the session is stale or busy, or throws on its way.      *)
LaunchClaimed(o) ==
    \/ LET c == started + 1
       IN  /\ Launch(c) /\ scope' = scope \cup {c}
           /\ answers' = [answers EXCEPT ![c] = o]
           /\ claimOf' = [claimOf EXCEPT ![o] = [phase |-> "prestart", run |-> c]]
           /\ orphaned' = orphaned \ {o} /\ noticed' = noticed \ {o}
           /\ UNCHANGED <<offered, summary, bound>>
    \/ ReleaseClaim(o) /\ UNCHANGED <<registryVars, scope, offered, summary, bound, answers, noticed>>

(* The service claims the handoff of o, in place of an expired claim or one *)
(* whose continuation reads as failed, and launches.  The claim may be      *)
(* refused: the handoff changed while the operator thought, its script is   *)
(* not eligible any more, or a transition of somebody else is under way.    *)
LaunchContinuation(o) ==
    \/ Projected(o) \in {"pending", "retryable"} /\ LaunchClaimed(o)
    \/ UNCHANGED <<registryVars, scope, continuationVars, noticed>>

(* Mutant: the answer is launched without another look at the session.      *)
PumpContinuesUnguarded ==
    /\ Turn /\ asking # NoPump /\ stage[asking.request] \in Over
    /\ asking' = NoPump
    /\ IF stage[asking.request] = "answered"
         THEN LaunchContinuation(asking.run)
         ELSE UNCHANGED <<registryVars, scope, continuationVars, noticed>>
    /\ UNCHANGED interactionVars

(* The surface has settled.  An answer, a refusal included, is launched if  *)
(* the pump's session is still current and idle; else it is dropped.       *)
PumpContinues ==
    /\ Turn /\ asking # NoPump /\ stage[asking.request] \in Over
    /\ asking' = NoPump
    /\ \E guard \in Guard(asking.gen) :
         IF stage[asking.request] = "answered" /\ guard = "ready"
         THEN LaunchContinuation(asking.run)
         ELSE UNCHANGED <<registryVars, scope, continuationVars, noticed>>
    /\ UNCHANGED interactionVars

(* `continue <run> --answer`: no question is asked.                        *)
PumpAnswers(o) ==
    /\ Turn /\ HasLease /\ asking = NoPump
    /\ o \in Candidates(FALSE)
    /\ LaunchContinuation(o)
    /\ UNCHANGED <<interactionVars, asking>>

-----------------------------------------------------------------------------
(* Another feature asks for the surface: a tool's question, a viewer.       *)
Asks(r) == r \in Requests \ Questions /\ Turn /\ Request(r) /\ UNCHANGED <<registryVars, pumpVars>>

(* The guard that a request carries: the handoff controller's is its pump's. *)
MayMount(r) == IF r \in Questions THEN {guard = "ready" : guard \in Guard(asking.gen)} ELSE BOOLEAN

Surface(r) == SurfaceStep(r, MayMount(r)) /\ UNCHANGED <<registryVars, pumpVars>>

SessionNext ==
    \/ SessionStarts \/ SessionShutdown \/ SessionShutdownReturns
    \/ \E r \in Runs :
          \/ Command(r) \/ ToolCall(r) \/ CommandStop(r)
          \/ RunStarts(r) \/ RunSettles(r) \/ Receipts(r)
          \/ BindsClaim(r) \/ SurvivesError(r) \/ ClaimExpires(r)
          \/ ContinuationSettles(r) \/ ContinuationEscapes(r)
          \/ PumpDefers(r) \/ PumpAnswers(r)
          \/ \E auto \in BOOLEAN, q \in Questions : PumpAsks(r, auto, q)
    \/ PumpContinues
    \/ \E r \in Requests : Asks(r) \/ Surface(r)

SessionSpec == SessionInit /\ [][SessionNext]_sessionVars

-----------------------------------------------------------------------------
(* A handoff that says its continuation is running, and so can be neither   *)
(* asked nor answered, has one at work that holds its claim, whatever was   *)
(* refused, thrown or lost on the way, unless the claim's release failed or *)
(* its run escaped; and a bound continuation at work keeps the claim, so    *)
(* that nobody is asked again, until it journals an error                   *)
(* (operator-handoff-service.ts:182-232, workflow-handoff.ts:83-87).        *)
ContinuationRuns ==
    /\ \A o \in Runs \ orphaned : Projected(o) = "running" => \E c \in Unsettled : answers[c] = o /\ KeepsClaim(c)
    /\ \A c \in Unsettled \cap bound : summary[c] = "running" => KeepsClaim(c) /\ Projected(answers[c]) = "running"

(* An answer stays in the session that asked for it: whatever happened       *)
(* while the operator was thinking, the continuation it launches belongs to *)
(* the generation in which its question was asked.                         *)
AnswerStaysInSession ==
    [][asking # NoPump /\ asking' = NoPump /\ started' # started => leaseOf'[started'] = asking.gen]_sessionVars

=============================================================================
