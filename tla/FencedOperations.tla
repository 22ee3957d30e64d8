--------------------------- MODULE FencedOperations ---------------------------
(* What the workflow queue promises, without leases, clocks, batches or retries: *)
(* every grant of an operation carries a higher fence than all grants before it, *)
(* only the newest grant can finish or park the operation, it is parked only     *)
(* after MaxAttempts grants, and what succeeded is never touched again.          *)
EXTENDS Naturals

CONSTANTS Keys, Workers, MaxAttempts

VARIABLES
  status,   \* per key: "absent" | "open" | "manual" | "succeeded"
  fence,    \* per key: the number of grants so far
  grant     \* per worker: <<key, fence>>, or NoGrant

promised == <<status, fence, grant>>

NoGrant == <<>>

Init == /\ status = [k \in Keys |-> "absent"]
        /\ fence = [k \in Keys |-> 0]
        /\ grant = [w \in Workers |-> NoGrant]

\* The caller that enqueues an operation is its first holder; a later one takes
\* it over.
Open(k) == /\ status[k] = "absent"
           /\ status' = [status EXCEPT ![k] = "open"]
           /\ fence' = [fence EXCEPT ![k] = 1]
           /\ UNCHANGED grant

Supersede(k) == /\ status[k] = "open"
                /\ fence' = [fence EXCEPT ![k] = @ + 1]
                /\ UNCHANGED <<status, grant>>

\* A worker is handed the operation.
Grant(w, k) == /\ status[k] = "open"
               /\ fence' = [fence EXCEPT ![k] = @ + 1]
               /\ grant' = [grant EXCEPT ![w] = <<k, fence[k] + 1>>]
               /\ UNCHANGED status

Newest(w, k) == status[k] = "open" /\ grant[w] = <<k, fence[k]>>

Finish(w, k) == /\ Newest(w, k)
                /\ status' = [status EXCEPT ![k] = "succeeded"]
                /\ UNCHANGED <<fence, grant>>

Park(w, k) == /\ Newest(w, k) /\ fence[k] >= MaxAttempts
              /\ status' = [status EXCEPT ![k] = "manual"]
              /\ grant' = [grant EXCEPT ![w] = NoGrant]
              /\ UNCHANGED fence

\* The operator requeues a parked operation or closes it with evidence.
Resolve(k) == /\ status[k] = "manual"
              /\ \E s \in {"open", "succeeded"} : status' = [status EXCEPT ![k] = s]
              /\ UNCHANGED <<fence, grant>>

\* The worker returns, gives up or dies.
Drop(w) == /\ grant' = [grant EXCEPT ![w] = NoGrant]
           /\ UNCHANGED <<status, fence>>

Next == \/ \E k \in Keys : Open(k) \/ Supersede(k) \/ Resolve(k)
        \/ \E w \in Workers, k \in Keys : Grant(w, k) \/ Finish(w, k) \/ Park(w, k)
        \/ \E w \in Workers : Drop(w)

Spec == Init /\ [][Next]_promised
=============================================================================
