--------------------------- MODULE UpgradeContract ---------------------------
(***************************************************************************)
(* What the in-place upgrade of a cluster promises, whatever the order in  *)
(* which its KKInstances are reconciled: kubeadm upgrades a first control  *)
(* plane, then the other control planes, then the workers; no kubelet runs *)
(* the new version before kubeadm has upgraded every control plane and the *)
(* kubelet's own node.                                                     *)
(***************************************************************************)
CONSTANTS CP, Workers   \* KKInstances of the control plane, and the others

VARIABLES
    upgraded,           \* instances on which kubeadm has written the new version
    restarted           \* instances whose kubelet runs the new version

uvars == <<upgraded, restarted>>

UInit == upgraded = {} /\ restarted = {}

First(c) ==
    /\ upgraded = {}
    /\ upgraded' = {c}
    /\ UNCHANGED restarted

Other(c) ==
    /\ upgraded # {}
    /\ upgraded' = upgraded \cup {c}
    /\ UNCHANGED restarted

Worker(w) ==
    /\ CP \subseteq upgraded
    /\ upgraded' = upgraded \cup {w}
    /\ UNCHANGED restarted

Restart(n) ==
    /\ CP \cup {n} \subseteq upgraded
    /\ restarted' = restarted \cup {n}
    /\ UNCHANGED upgraded

UNext ==
    \/ \E c \in CP : First(c) \/ Other(c)
    \/ \E w \in Workers : Worker(w)
    \/ \E n \in CP \cup Workers : Restart(n)

USpec == UInit /\ [][UNext]_uvars
=============================================================================
