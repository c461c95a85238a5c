---------------------------- MODULE MCBTTracking ----------------------------
(* Instances of BTTracking.                                                  *)
EXTENDS BTTracking
CONSTANTS p1, p2, seed, sub, tr
FlatConfig(hosts, n) ==
  [netinf |-> FALSE, hosts |-> hosts, leavers |-> {p1}, far |-> {},
   maxPeersInReply |-> 1, fails |-> FALSE, maxContacts |-> n]
NetInfConfig(hosts, leavers, far, fails, n) ==
  [netinf |-> TRUE, hosts |-> hosts, leavers |-> leavers, far |-> far,
   maxPeersInReply |-> 2, fails |-> fails, maxContacts |-> n]
TrackingConfigs ==
  {FlatConfig({p1, seed}, 2), FlatConfig({p1, p2, seed}, 1),
   NetInfConfig({p1, sub}, {p1}, {}, FALSE, 2),
   NetInfConfig({p1, p2, sub}, {}, {}, TRUE, 1),
   NetInfConfig({p1, p2, sub}, {p1}, {p2}, FALSE, 1)}
=============================================================================
