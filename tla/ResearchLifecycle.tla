-------------------------- MODULE ResearchLifecycle --------------------------
(* The four-dimensional state of a research record and the transition tables   *)
(* of lib/db/research-repo.ts that transitionLifecycle, beginActivation,       *)
(* completeFundingExpiry and requestFinalization go through.                    *)

Dimensions == {"status", "activation", "finalization", "quota"}

Moves ==
  [status |->
     {"funding"} \X {"funding_expired", "running", "cancelled"}
       \union {"running"} \X {"completed", "failed", "cancelled"},
   activation |->
     {"none"} \X {"funded", "expired", "cancelled"}
       \union {"funded"} \X {"activating", "expired", "cancelled"}
       \union {"activating"} \X {"active", "expired", "cancelled"}
       \union {"expired"} \X {"cancelled"},
   finalization |->
     {"none"} \X {"open", "closing", "closed"}
       \union {"open"} \X {"closing"}
       \union {"closing"} \X {"closed", "manual"}
       \union {"manual"} \X {"closing", "closed"},
   quota |->
     {"reserved"} \X {"released", "activating"}
       \union {"activating"} \X {"consumed", "released"}]

Values(d) == UNION {{m[1], m[2]} : m \in Moves[d]}

Life == [status : Values("status"), activation : Values("activation"),
         finalization : Values("finalization"), quota : Values("quota")]

\* A patch names the dimensions it changes.
Patched(life, patch) ==
  [d \in Dimensions |-> IF d \in DOMAIN patch THEN patch[d] ELSE life[d]]

\* nextResearchLifecycle returns a state, and not null.
Allowed(life, patch) ==
  \A d \in DOMAIN patch : patch[d] = life[d] \/ <<life[d], patch[d]>> \in Moves[d]

Prepared == [status |-> "funding", activation |-> "none",
             finalization |-> "none", quota |-> "reserved"]
Open     == [status |-> "running", activation |-> "active",
             finalization |-> "open", quota |-> "consumed"]
=============================================================================
