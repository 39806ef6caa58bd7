---------------------------- MODULE MCOperations ----------------------------
(***************************************************************************)
(* Six parts of the backend that share no state are checked in one run:    *)
(* the seats of a license, the members of a project, the refunds of a      *)
(* purchase, an outbound event, and the prices of a plan and the coupons   *)
(* of a promotion at the providers.                                        *)
(* A behaviour is one of the part that "focus" names, and the others stay  *)
(* where they begin, so the states of the run are those of each part, not  *)
(* their product.                                                          *)
(***************************************************************************)
EXTENDS LicenseSeats, ProjectMembers, RefundFlow, OutboundDispatch, PlanSync,
        PromotionCoupons, TLC

VARIABLE focus

people == <<seatsVars, membersVars>>
jobsVars == <<refundVars, outboundVars>>
copies == <<planVars, promoVars>>

OperationsInit ==
    /\ focus \in {"seats", "members", "refund", "outbound", "plan", "promo"}
    /\ SeatsInit /\ MembersInit /\ RefundInit /\ OutboundInit /\ PlanInit
    /\ PromoInit
    \* Where a part may begin in several states, only its own runs do.
    /\ focus # "seats" => (licence = "none" /\ cap = Unlimited)
    /\ focus # "members" => (known = {Founder} /\ gone = {})
    /\ focus # "outbound" => listening = {}
    /\ focus # "plan" => (offered = {} /\ enabled = {})

OperationsNext ==
    /\ UNCHANGED focus
    /\ \/ /\ focus = "seats" /\ SeatsNext
          /\ UNCHANGED <<membersVars, jobsVars, copies>>
       \/ /\ focus = "members" /\ MembersNext
          /\ UNCHANGED <<seatsVars, jobsVars, copies>>
       \/ /\ focus = "refund" /\ RefundNext
          /\ UNCHANGED <<people, outboundVars, copies>>
       \/ /\ focus = "outbound" /\ OutboundNext
          /\ UNCHANGED <<people, refundVars, copies>>
       \/ /\ focus = "plan" /\ PlanNext
          /\ UNCHANGED <<people, jobsVars, promoVars>>
       \/ /\ focus = "promo" /\ PromoNext
          /\ UNCHANGED <<people, jobsVars, planVars>>

OperationsSpec ==
    OperationsInit /\ [][OperationsNext]_<<people, jobsVars, copies, focus>>

(* Sets of the parts share their model values, so that one small group     *)
(* serves all: a permutation of the values permutes all these sets alike.  *)
Alike ==
    Permutations(Calls) \cup Permutations(Devices) \cup Permutations(Invites)
=============================================================================
