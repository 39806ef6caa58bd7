-------------------------- MODULE MCLicenseStories --------------------------
(***************************************************************************)
(* Two stories in one run, each a checkout and its events; a behaviour     *)
(* goes on only while it is in one of them.  That of p1: the two payment   *)
(* events of u1's discounted checkout race, may run twice, and one step    *)
(* fails.  That of p2: the payment of u2 and all that can end it, the      *)
(* customer's own request included, beside another customer.               *)
(* LemonSqueezy's refund names the order that was paid.                    *)
(***************************************************************************)
EXTENDS MCLicenseFulfilment

MCStoryOf == [e \in Events |-> IF e \in {pay, act} THEN p1 ELSE p2]
MCStoryTxn == [e \in Events |-> CASE e = pay -> t1
                                   [] e = act -> t2
                                   [] e = gone -> t3
                                   [] OTHER -> t4]
MCStorySub == [e \in Events |-> CASE e \in {pay, act} -> s1
                                   [] e = refund -> NoSub
                                   [] OTHER -> s2]
MCStoryPayer == [e \in Events |-> IF e \in {pay, act} THEN u1 ELSE u2]
MCStoryRuns == [e \in Events |-> IF e \in {pay, act} THEN 2 ELSE 1]

Untold(p) ==
    checkout[p] = "new" /\ \A e \in Events : PurchaseOf[e] = p => runs[e] = 0

OneStory ==
    \/ Untold(p2) /\ license[u2] = "none" /\ ~atEnd[s1]
    \/ Untold(p1) /\ faults = 0
=============================================================================
