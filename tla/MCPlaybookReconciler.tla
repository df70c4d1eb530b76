------------------------ MODULE MCPlaybookReconciler ------------------------
(* An instance of PlaybookReconciler: room for a second Pod, stale caches.  *)
EXTENDS PlaybookReconciler

MCLags == {{"playbook"}, {"playbook", "pods"}}
=============================================================================
