---------------------------- MODULE MCLifecycle ----------------------------
(***************************************************************************)
(* One handoff revision, two result ids, and six events: a project is      *)
(* planned, revised, produced and completed, or completed and then revised *)
(* or reopened.  Blockers name the planning state, where a revision may    *)
(* follow.                                                                 *)
(***************************************************************************)
EXTENDS Lifecycle, TLC
=============================================================================
