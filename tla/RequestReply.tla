---------------------------- MODULE RequestReply ----------------------------
(***************************************************************************)
(* What a request/answer bridge promises the tools that use it, whatever   *)
(* the mechanism: a request ends at most once; it ends as answered or      *)
(* refused only when the peer replied to that very request; and when the   *)
(* run is stopped every request that still waits is released at once,      *)
(* wherever it is, and nothing new is asked.  QaChannel and                *)
(* ScenarioChannel implement it.                                           *)
(***************************************************************************)

CONSTANT Requests

VARIABLES
    state,     \* state[r]: not asked yet, open, or how it ended
    waiting,   \* the open requests nothing has released yet
    replied,   \* the requests a reply of the peer has found
    stopped    \* the operator stopped the run

vars == <<state, waiting, replied, stopped>>

ByReply      == {"answer", "refused"}
WithoutReply == {"cancelled", "silence", "broken"}

TypeOK ==
    /\ state \in [Requests -> {"idle", "open"} \cup ByReply \cup WithoutReply]
    /\ waiting \subseteq Requests
    /\ replied \subseteq Requests
    /\ stopped \in BOOLEAN

Init ==
    /\ state = [r \in Requests |-> "idle"]
    /\ waiting = {}
    /\ replied = {}
    /\ stopped = FALSE

Ask(r) ==
    /\ ~stopped
    /\ state[r] = "idle"
    /\ state' = [state EXCEPT ![r] = "open"]
    /\ waiting' = waiting \cup {r}
    /\ UNCHANGED <<replied, stopped>>

\* The first reply releases an open request; what comes later, and what comes
\* for a request that has ended, goes nowhere.
Reply(r) ==
    /\ state[r] # "idle"
    /\ state[r] = "open" => r \in waiting
    /\ replied' = replied \cup {r}
    /\ waiting' = waiting \ {r}
    /\ UNCHANGED <<state, stopped>>

\* Silence may meet a reply, or the stop, in the same turn of the loop.
End(r) ==
    /\ state[r] = "open"
    /\ \/ r \in replied /\ \E how \in ByReply : state' = [state EXCEPT ![r] = how]
       \/ \E how \in WithoutReply : state' = [state EXCEPT ![r] = how]
    /\ waiting' = waiting \ {r}
    /\ UNCHANGED <<replied, stopped>>

Stop ==
    /\ stopped' = TRUE
    /\ waiting' = {}
    /\ UNCHANGED <<state, replied>>

Next ==
    \/ \E r \in Requests : Ask(r) \/ Reply(r) \/ End(r)
    \/ Stop

Spec == Init /\ [][Next]_vars

=============================================================================
