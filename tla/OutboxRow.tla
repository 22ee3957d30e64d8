------------------------------ MODULE OutboxRow ------------------------------
(* One row of the workflow_outbox table and the functions both repositories   *)
(* (workflow-outbox-repo-memory.ts, workflow-outbox-repo-pg.ts) compute on it. *)
(* Hashes, payload digests, error texts and the coordinates of a transaction   *)
(* are left out; of txHash only "was recorded" is kept.                        *)
EXTENDS Naturals

CONSTANTS Owners,     \* the leaseOwner strings in use
          LeaseDur    \* leaseDurationMs, in clock units

ASSUME LeaseAssumption == LeaseDur \in Nat \ {0}

Terminal == {"succeeded", "manual"}
Live     == {"queued", "running", "broadcasting", "reconciling", "failed"}
Phases   == Live \union Terminal

\* leaseExpiresAt = null is 0: the clock starts at 1, and a null lease and an
\* expired one pass the same tests in the code.
NoLease == 0

Row == [phase : Phases \union {"absent"}, owner : Owners \union {"nobody"},
        lease : Nat, token : Nat, attempts : Nat, next : Nat, tx : BOOLEAN]

Absent == [phase |-> "absent", owner |-> "nobody", lease |-> NoLease,
           token |-> 0, attempts |-> 0, next |-> 0, tx |-> FALSE]

\* listDueOperations and canClaim: due, and no lease that is still running.
Due(r, now)      == r.phase \in Live /\ r.next <= now /\ r.lease <= now
CanClaim(r, now) == Due(r, now)

\* canMutate: the fence of the caller is the row's and the lease still runs.
\* The owner is not part of the test.
CanMutate(r, token, now) == r.phase \in Live /\ r.token = token /\ r.lease > now

\* claimOperation on an unknown key: the enqueuing caller gets the first lease.
Inserted(owner, now) ==
  [phase |-> "queued", owner |-> owner, lease |-> now + LeaseDur,
   token |-> 1, attempts |-> 1, next |-> now, tx |-> FALSE]

\* claimOperation on a known key: fence and attempts count from `seen`, the row
\* the caller read; the phase and the transaction stay those of the row.
Reclaimed(r, seen, owner, now) ==
  [r EXCEPT !.owner = owner, !.lease = now + LeaseDur,
            !.token = seen.token + 1, !.attempts = seen.attempts + 1]

Renewed(r, now)         == [r EXCEPT !.lease = now + LeaseDur]
Checkpointed(r)         == [r EXCEPT !.phase = "running"]
Broadcast(r)            == [r EXCEPT !.phase = "broadcasting", !.tx = TRUE]
Released(r, phase, at)  == [r EXCEPT !.phase = phase, !.owner = "nobody",
                                     !.lease = NoLease, !.next = at]
\* Fault: a phase the schema does not know.
CompletedAsDone(r)      == [r EXCEPT !.phase = "done", !.owner = "nobody",
                                     !.lease = NoLease]
Completed(r)            == [r EXCEPT !.phase = "succeeded", !.owner = "nobody",
                                     !.lease = NoLease]
\* recoverManualOperation: fence and attempts are not reset.
Recovered(r, phase, now) == Released(r, phase, now)
=============================================================================
