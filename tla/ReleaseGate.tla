----------------------------- MODULE ReleaseGate -----------------------------
(***************************************************************************)
(* What the approval flow promises about one agent: nobody's edit goes     *)
(* live, a review is a review of the working copy as it stands, and only   *)
(* an approval changes what is published.  Every operation is one step.    *)
(***************************************************************************)
CONSTANTS
  Contents,  \* what a working copy or a version can hold
  None       \* no version

VARIABLES
  stage,      \* "draft", "pending", "published" or "deleted"
  work,       \* the working copy
  candidate,  \* the version under review, or None
  live        \* the published version, or None

gate == <<stage, work, candidate, live>>

Init ==
  /\ stage = "draft"
  /\ work \in Contents
  /\ candidate = None
  /\ live = None

\* Any change of the working copy ends a review and a publication.
Edit ==
  /\ stage # "deleted"
  /\ work' \in Contents \ {work}
  /\ stage' = "draft"
  /\ candidate' = None
  /\ UNCHANGED live

\* Back to a draft without a change: a rejection, or a rollback to the same
\* contents.
Withdraw ==
  /\ stage \in {"pending", "published"}
  /\ stage' = "draft"
  /\ candidate' = None
  /\ UNCHANGED <<work, live>>

Submit ==
  /\ stage = "draft"
  /\ stage' = "pending"
  /\ candidate' = work
  /\ UNCHANGED <<work, live>>

Approve ==
  /\ stage = "pending"
  /\ stage' = "published"
  /\ live' = candidate
  /\ candidate' = None
  /\ UNCHANGED work

\* Deleting an agent drops its bindings and leaves its versions behind.  A
\* rollback still reaches the versions of a deleted agent.
Delete ==
  /\ stage' = "deleted"
  /\ work' \in Contents
  /\ candidate' \in {candidate, None}
  /\ UNCHANGED live

Next == Edit \/ Withdraw \/ Submit \/ Approve \/ Delete

Spec == Init /\ [][Next]_gate
=============================================================================
