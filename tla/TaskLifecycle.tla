--------------------------- MODULE TaskLifecycle ----------------------------
(***************************************************************************)
(* What the server promises a client about its background tasks, with no   *)
(* registry, lock, slot or session: a task is born working, ends once and  *)
(* for good, is cancelled only if somebody asked for it, and is forgotten  *)
(* only after it has ended.  JobRegistry implements this specification.    *)
(***************************************************************************)
CONSTANT Jobs        \* every task id that can ever be handed out

VARIABLES status,    \* status[j]: what tasks/get would say of j
          asked      \* asked[j]: somebody tripped the cancellation of j

vars == <<status, asked>>

Ended == {"completed", "failed", "cancelled"}

Init == /\ status = [j \in Jobs |-> "unknown"]
        /\ asked = [j \in Jobs |-> FALSE]

\* A task id is answered for; an id is handed out at most once.
Create(j) == /\ status[j] = "unknown"
             /\ status' = [status EXCEPT ![j] = "working"]
             /\ UNCHANGED asked

\* The request may come too late: it then changes nothing the client sees.
Ask(j) == /\ status[j] # "unknown"
          /\ asked' = [asked EXCEPT ![j] = TRUE]
          /\ UNCHANGED status

Resolve(j) == /\ status[j] = "working"
              /\ \E s \in Ended :
                    /\ s = "cancelled" => asked[j]
                    /\ status' = [status EXCEPT ![j] = s]
              /\ UNCHANGED asked

\* Any number of ended tasks is forgotten at once.
Forget == \E J \in SUBSET {j \in Jobs : status[j] \in Ended} :
            /\ status' = [j \in Jobs |-> IF j \in J THEN "gone" ELSE status[j]]
            /\ UNCHANGED asked

Next == \/ \E j \in Jobs : Create(j) \/ Ask(j) \/ Resolve(j)
        \/ Forget

Fairness == \A j \in Jobs : WF_vars(Resolve(j))

Safe == Init /\ [][Next]_vars

Spec == Safe /\ Fairness
=============================================================================
