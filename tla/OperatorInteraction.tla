------------------------ MODULE OperatorInteraction ------------------------
(***************************************************************************)
(* The one inline surface of the operator                                  *)
(* (extensions/_shared/operator/operator-interaction.ts, with the question  *)
(* component of operator-question.ts).                                     *)
(*                                                                         *)
(* Pi shows one component in the place of its editor.  Feature code asks    *)
(* for the place with a request, whose factory Pi's custom() runs, once or  *)
(* more often; the requests of a session queue up, but one that can mount   *)
(* takes the slot from its holder.  Pi never tells a component that it was  *)
(* replaced, and the close of a custom() call, which counts once, restores  *)
(* the editor over whatever is on the screen.  The host's part (screen, and *)
(* which calls are closed) is external, modelled from what the module says  *)
(* of it and from the host its tests use.                                  *)
(*                                                                         *)
(* A turn of the event loop is one action.  A microtask that the code       *)
(* queues runs before the next turn: "silent" holds them.                  *)
(***************************************************************************)
EXTENDS Naturals, FiniteSets

CONSTANTS Requests,   \* calls of requestInlineOperatorInteraction()
          MaxMounts,  \* bound: how many components one custom() call builds
          Nobody      \* no request; on the screen: the editor

ASSUME InteractionAssumption ==
    IsFiniteSet(Requests) /\ MaxMounts \in Nat \ {0} /\ Nobody \notin Requests /\ Nobody \notin Requests \X Nat

VARIABLES stage,      \* where each request stands
          owns,       \* ownsSlot
          released,   \* slotReleased
          ahead,      \* while it waits: whose release it awaits, the tail it found
          contended,  \* while it waits: others were pending when it came
          queue,      \* the queue each request joined, by the request that founded it
          tail,       \* the newest request
          holder,     \* releaseCurrent and supersedeCurrent of each queue
          building,   \* mount.inFlight: requests whose factory runs
          built,      \* mount.current, by how many components were built before it
          live,       \* components that were built and have not reported
          gone,       \* components that were disposed
          silent,     \* disposals whose microtask has not run yet
          screen,     \* the component in the place of the editor
          strayed     \* a call that builds twice has parted from its slot: see StrandsNobody

queueVars == <<ahead, contended, queue, tail>>
interactionVars ==
    <<stage, owns, released, queueVars, holder, building, built, live, gone, silent, screen, strayed>>

Current(r) == <<r, built[r]>>

\* The caller has an answer, the error of its factory, or another one: stale,
\* superseded or abandoned.  Only the first two close the host's call.
Closed == {"answered", "rejected"}
Over == Closed \cup {"failed"}

InteractionInit ==
    /\ stage = [r \in Requests |-> "new"]
    /\ owns = [r \in Requests |-> TRUE]
    /\ released = [r \in Requests |-> FALSE]
    /\ ahead = [r \in Requests |-> Nobody]
    /\ contended = [r \in Requests |-> FALSE]
    /\ queue = [r \in Requests |-> Nobody]
    /\ tail = Nobody
    /\ holder = [f \in Requests |-> Nobody]
    /\ building = {}
    /\ built = [r \in Requests |-> 0]
    /\ live = {} /\ gone = {} /\ silent = {}
    /\ screen = Nobody
    /\ strayed = FALSE

-----------------------------------------------------------------------------
\* queue.pending.  A queue that nobody waits in any more is dropped.
Pending == {r \in Requests : stage[r] # "new" /\ ~released[r]}

(* A request joins the queue of its session, or founds a new one.           *)
Request(r) ==
    /\ silent = {} /\ stage[r] = "new"
    /\ stage' = [stage EXCEPT ![r] = "queued"]
    /\ ahead' = [ahead EXCEPT ![r] = IF Pending = {} THEN Nobody ELSE tail]
    /\ contended' = [contended EXCEPT ![r] = Pending # {}]
    /\ queue' = [queue EXCEPT ![r] = IF Pending = {} THEN r ELSE queue[tail]]
    /\ tail' = r
    /\ UNCHANGED <<owns, released, holder, building, built, live, gone, silent, screen, strayed>>

\* The promise of the slot before this one has resolved.
Available(r) == ahead[r] \in {q \in Requests : released[q]} \cup {Nobody}

\* releaseSlot() for a set of requests.
Released(S) == released' = [r \in Requests |-> released[r] \/ r \in S]
\* The holders of the queues after r has released its slot, which counts once.
HolderWithout(r) ==
    [f \in Requests |-> IF f = queue[r] /\ holder[f] = r /\ ~released[r] THEN Nobody ELSE holder[f]]
\* The caller of a request gets an outcome, if it has none.
Outcome(r, outcome) == IF stage[r] \in Over THEN stage[r] ELSE outcome

(* A contended request that cannot mount now waits for its turn and leaves  *)
(* the screen alone: whenReadyToMount() never resolves.                    *)
Wait(r) ==
    /\ stage[r] = "queued" /\ contended[r] /\ ~Available(r)
    /\ stage' = [stage EXCEPT ![r] = "waiting"]
    /\ UNCHANGED <<owns, released, queueVars, holder, building, built, live, gone, silent, screen, strayed>>

\* In its turn, or at once when others are pending and it is ready to mount.
ComesUp(r, ready) ==
    \/ stage[r] = "queued" /\ (Available(r) \/ (contended[r] /\ ready))
    \/ stage[r] = "waiting" /\ Available(r)

(* The request comes up: the session lease is checked, and Pi's custom()    *)
(* starts the factory.                                                     *)
Enter(r, ready) ==
    /\ ComesUp(r, ready)
    /\ stage' = [stage EXCEPT ![r] = IF ready THEN "mounting" ELSE "failed"]
    /\ building' = IF ready THEN building \cup {r} ELSE building
    /\ Released(IF ready THEN {} ELSE {r})
    /\ ahead' = [ahead EXCEPT ![r] = Nobody] /\ contended' = [contended EXCEPT ![r] = FALSE]
    /\ UNCHANGED <<owns, queue, tail, holder, built, live, gone, silent, screen, strayed>>

(* The host, or the component's owner, has the factory build another one.   *)
Remount(r) ==
    /\ \A c \in silent : c[1] = r
    /\ stage[r] = "shown" /\ r \notin building /\ built[r] < MaxMounts
    /\ building' = building \cup {r}
    /\ strayed' = (strayed \/ silent # {})
    /\ UNCHANGED <<stage, owns, released, queueVars, holder, built, live, gone, silent, screen>>

\* A run of the factory ends after another request took the slot from its caller.
Strays(r) == strayed \/ stage[r] = "failed"

(* Mutant: a request that was retired may still close its call.             *)
RetireSpeaking(S) == owns' = owns

\* retireIncumbent() by r: the request that loses the slot to it.
Incumbent(r) == {holder[queue[r]]} \ {r, Nobody}
Retire(S) == owns' = [r \in Requests |-> owns[r] /\ r \notin S]

(* The factory has built a component: takeSlot() retires the incumbent,     *)
(* whose caller is failed, and Pi mounts the component unless the call is   *)
(* closed.  A question whose abort signal fired while it waited reports     *)
(* before that, in a microtask of its own.                                 *)
Mount(r) ==
    LET c == <<r, built[r] + 1>>
        retired == IF owns[r] THEN Incumbent(r) ELSE {}
    IN  /\ silent = {} /\ r \in building
        /\ building' = building \ {r} /\ built' = [built EXCEPT ![r] = @ + 1]
        /\ \E early \in BOOLEAN :
             LET reports == early /\ owns[r] /\ stage[r] \notin Over
             IN  /\ stage' = [q \in Requests |->
                       CASE q = r -> Outcome(r, IF reports THEN "answered" ELSE "shown")
                         [] q \in retired -> Outcome(q, "failed")
                         [] OTHER -> stage[q]]
                 /\ Released(retired \cup (IF reports THEN {r} ELSE {}))
                 /\ holder' = [f \in Requests |->
                       IF f # queue[r] \/ ~owns[r] THEN holder[f] ELSE IF reports /\ ~released[r] THEN Nobody ELSE r]
                 /\ live' = IF early THEN live ELSE live \cup {c}
                 /\ screen' = CASE stage[r] \in Closed -> screen [] reports -> Nobody [] OTHER -> c
        /\ Retire(retired)
        /\ strayed' = Strays(r)
        /\ UNCHANGED <<queueVars, gone, silent>>

(* The factory fails: nothing is mounted, but Pi restores its editor, so    *)
(* the incumbent is off the screen too; the first run of a call retires it. *)
FactoryFails(r) ==
    LET retired == IF built[r] = 0 THEN Incumbent(r) ELSE {}
    IN  /\ silent = {} /\ r \in building
        /\ building' = building \ {r}
        /\ IF stage[r] \in Closed
             THEN UNCHANGED <<stage, owns, released, holder, screen>>
             ELSE /\ stage' = [q \in Requests |->
                        CASE q = r -> Outcome(r, "rejected") [] q \in retired -> Outcome(q, "failed") [] OTHER -> stage[q]]
                  /\ Retire(retired) /\ Released(retired \cup {r})
                  /\ holder' = IF built[r] = 0 THEN [holder EXCEPT ![queue[r]] = Nobody] ELSE HolderWithout(r)
                  /\ screen' = Nobody
        /\ strayed' = Strays(r)
        /\ UNCHANGED <<queueVars, built, live, gone, silent>>

(* A component reports: the operator answered it, or its timer or its abort *)
(* listener fired, maybe long after it left the screen.  The host closes    *)
(* for a request that owns the slot; any other call is dropped.            *)
Report(c) ==
    LET r == c[1]
    IN  /\ c \in live /\ silent \subseteq {c}
        /\ live' = live \ {c}
        /\ IF owns[r] /\ stage[r] \notin Closed
             THEN /\ stage' = [stage EXCEPT ![r] = "answered"] /\ Released({r})
                  /\ holder' = HolderWithout(r)
                  /\ screen' = Nobody
             ELSE UNCHANGED <<stage, released, holder, screen>>
        /\ UNCHANGED <<owns, queueVars, building, built, gone, silent, strayed>>

(* A component is disposed without a report: by the host, which ends a      *)
(* session, or by its owner.  Its request gives the slot up, and it may be  *)
(* gone from the screen.  (To one whose caller has its outcome this does    *)
(* nothing.)                                                               *)
Dispose(c) ==
    LET r == c[1]
    IN  /\ silent = {} /\ c \in live \ gone /\ stage[r] = "shown"
        /\ gone' = gone \cup {c} /\ silent' = {c}
        /\ Released({r})
        /\ holder' = HolderWithout(r)
        /\ screen' \in {screen, IF screen = c THEN Nobody ELSE screen}
        /\ strayed' = (strayed \/ r \in building \/ c # Current(r))
        /\ UNCHANGED <<stage, owns, queueVars, building, built, live>>

(* One microtask after a disposal: a component that has not reported never  *)
(* will; if it is the last one and no other is on its way, its caller is    *)
(* failed.                                                                 *)
Abandon(c) ==
    LET r == c[1]
    IN  /\ c \in silent
        /\ silent' = silent \ {c}
        /\ IF c \in live /\ c = Current(r) /\ r \notin building
             THEN Retire({r}) /\ stage' = [stage EXCEPT ![r] = Outcome(r, "failed")]
             ELSE UNCHANGED <<owns, stage>>
        /\ UNCHANGED <<released, queueVars, holder, building, built, live, gone, screen, strayed>>

SurfaceStep(r, readiness) ==
    \/ Wait(r)
    \/ \E ready \in readiness : Enter(r, ready)
    \/ Mount(r) \/ FactoryFails(r) \/ Remount(r)
    \/ \E k \in 1..MaxMounts : LET c == <<r, k>> IN Report(c) \/ Dispose(c) \/ Abandon(c)

\* The surface by itself: a request may find its session stale when it comes up.
InteractionNext == \E r \in Requests : Request(r) \/ SurfaceStep(r, BOOLEAN)
InteractionSpec == InteractionInit /\ [][InteractionNext]_interactionVars

-----------------------------------------------------------------------------
(* A caller that waits for its component has it on the screen, where the    *)
(* operator can answer it: no late report of a replaced component, failed   *)
(* factory, takeover or disposal blanks it without failing the caller       *)
(* (operator-interaction.ts:47-57, 289-298 and 306-310).                    *)
NeverStranded ==
    \A r \in Requests :
       stage[r] = "shown" /\ r \notin building /\ (\A c \in silent : c[1] # r) => screen = Current(r)

(* Nobody is stranded, over every order of requests, takeovers, late        *)
(* reports and repeated factories, until a call that builds a second        *)
(* component parts from its slot: the disposal of the first gives the slot  *)
(* of the whole request up, which the second cannot give up again and the   *)
(* next queue knows nothing of (operator-interaction.ts:100-116 and 347);   *)
(* or the second comes when its caller has been superseded (:169-173).      *)
StrandsNobody == ~strayed => NeverStranded
=============================================================================
