--------------------------- MODULE AgentLaunches ---------------------------
(***************************************************************************)
(* What one root execution promises the adapters above it, without queues,  *)
(* signals or ledgers (the header and the interface comments of             *)
(* execution-state.ts): at most Slots agents execute, at most Cap are ever  *)
(* launched, and a parent executes again or ends only after the children    *)
(* that were launched under it have ended.                                 *)
(***************************************************************************)
EXTENDS Integers, FiniteSets

CONSTANTS Agents,   \* the invocations
          Slots,    \* how many may execute at once
          Cap,      \* how many may be launched; 0 when there is no cap
          NoParent  \* the parent of a root invocation

VARIABLES status,    \* where each invocation stands
          parent,    \* under which invocation it was created
          launches   \* how many were launched

abstractVars == <<status, parent, launches>>

Running == {"executing", "yielded"}
ExecutingAgents == {i \in Agents : status[i] = "executing"}
ChildrenEnded(i) == \A j \in Agents : parent[j] = i => status[j] \notin Running

AbstractInit ==
    /\ status = [i \in Agents |-> "absent"]
    /\ parent = [i \in Agents |-> NoParent]
    /\ launches = 0

(* A new invocation belongs to the root or to an agent that yielded; a      *)
(* replayed one is settled from the start.                                 *)
Enter(i, p, how) ==
    /\ status[i] = "absent"
    /\ p = NoParent \/ status[p] = "yielded"
    /\ status' = [status EXCEPT ![i] = how]
    /\ parent' = [parent EXCEPT ![i] = p]
    /\ UNCHANGED launches

Launch(i) ==
    /\ status[i] = "waiting"
    /\ parent[i] = NoParent \/ status[parent[i]] = "yielded"
    /\ Cardinality(ExecutingAgents) < Slots
    /\ Cap # 0 => launches < Cap
    /\ status' = [status EXCEPT ![i] = "executing"]
    /\ launches' = launches + 1
    /\ UNCHANGED parent

Move(i, from, to) ==
    /\ status[i] \in from
    /\ status' = [status EXCEPT ![i] = to]
    /\ UNCHANGED <<parent, launches>>

Yield(i) == Move(i, {"executing"}, "yielded")
Resume(i) == ChildrenEnded(i) /\ Cardinality(ExecutingAgents) < Slots /\ Move(i, {"yielded"}, "executing")
End(i) == ChildrenEnded(i) /\ Move(i, Running, "ended")
Refuse(i) == Move(i, {"waiting"}, "ended")

AbstractNext ==
    \E i \in Agents :
        \/ \E p \in Agents \cup {NoParent}, how \in {"waiting", "ended"} : Enter(i, p, how)
        \/ Launch(i) \/ Yield(i) \/ Resume(i) \/ End(i) \/ Refuse(i)

AbstractSpec == AbstractInit /\ [][AbstractNext]_abstractVars
=============================================================================
