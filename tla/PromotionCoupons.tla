-------------------------- MODULE PromotionCoupons --------------------------
(***************************************************************************)
(* The coupons that stand for a promotion at the project's payment         *)
(* providers:                                                              *)
(*   core  routes/v1/admin/promotions/shared.ts, record.ts,                *)
(*         provider-refs.ts, routes/v1/admin/providers.ts                  *)
(*   db    queries.ts, schema.ts   promotionProviderRefQueries             *)
(* A sync makes a coupon at each active provider without an active         *)
(* reference and then writes the reference, of which the table has one row *)
(* per promotion and provider, active or not.  A deactivation deletes the  *)
(* coupons that active references name, one by one, and turns the          *)
(* references off.  Nothing ever turns one on again.  The syncs and the    *)
(* deactivation swallow their errors, and nothing keeps two calls apart.   *)
(* One promotion is modelled; coupons are numbered at each provider, and a *)
(* row is known by its coupon.  The default flag of a provider has no part *)
(* in this and is left out.                                                *)
(***************************************************************************)
EXTENDS Naturals, FiniteSets

CONSTANTS
    Configs,        \* payment_provider_configs of the project
    Managers,         \* calls that are served at a time
    NoConfig,
    \* Bounds of the model:
    MaxPromoCalls,  \* calls
    MaxCouponFaults \* statements and provider calls that fail, and crashes

ASSUME PromotionAssumption ==
    /\ NoConfig \notin Configs
    /\ {MaxPromoCalls, MaxCouponFaults} \subseteq Nat

VARIABLES
    promo,          \* none, active, inactive: promotions.is_active
    configs,        \* that exist
    serving,        \* is_active of a config
    row,            \* coupon that the reference of a config names, 0: no row
    on,             \* configs whose row is active
    live, made,     \* coupons that a provider has, and how many it ever made
    turn,           \* of a call
    config,         \* it is at
    coupon,         \* it is about
    list,           \* configs a sync has still to go to
    rest,           \* <<config, coupon>> a deactivation has still to delete
    promoCalls, couponFaults,
    \* History of the properties:
    others,         \* coupons that operators made, or whose row they deleted
    disturbed,      \* configs where something came between a sync's steps
    torn,           \* configs whose coupon went and whose row did not
    newer,          \* rows written since a deactivation last read the rows
    spared          \* configs that it has passed over since

callState == <<turn, config, coupon, list, rest>>
tables == <<promo, configs, serving, row, on>>
promoHistory == <<others, disturbed, torn, newer, spared>>
promoVars == <<tables, live, made, callState, promoCalls, couponFaults,
               promoHistory>>

Coining == {"create", "insert"}
Erasing == {"remove", "retire"}
PromoTypeOK ==
    /\ promo \in {"none", "active", "inactive"}
    /\ configs \subseteq Configs /\ serving \subseteq Configs
    /\ row \in [Configs -> Nat] /\ on \subseteq Configs
    /\ live \in [Configs -> SUBSET Nat] /\ made \in [Configs -> Nat]
    /\ turn \in [Managers -> {"idle", "configs", "next", "map", "refs",
                              "sweep", "drop", "delete"}
                             \cup Coining \cup Erasing]
    /\ config \in [Managers -> Configs \cup {NoConfig}]
    /\ coupon \in [Managers -> Nat]
    /\ list \in [Managers -> SUBSET Configs]
    /\ rest \in [Managers -> SUBSET (Configs \X Nat)]
    /\ {promoCalls, couponFaults} \subseteq Nat
    /\ others \in [Configs -> SUBSET Nat]
    /\ disturbed \subseteq Configs /\ torn \subseteq Configs
    /\ newer \subseteq Configs /\ spared \subseteq Configs

PromoInit ==
    /\ promo = "none" /\ configs = Configs /\ serving = Configs
    /\ row = [p \in Configs |-> 0] /\ on = {}
    /\ live = [p \in Configs |-> {}] /\ made = [p \in Configs |-> 0]
    /\ turn = [c \in Managers |-> "idle"]
    /\ config = [c \in Managers |-> NoConfig]
    /\ coupon = [c \in Managers |-> 0]
    /\ list = [c \in Managers |-> {}] /\ rest = [c \in Managers |-> {}]
    /\ promoCalls = 0 /\ couponFaults = 0
    /\ others = [p \in Configs |-> {}]
    /\ disturbed = {} /\ torn = {} /\ newer = {} /\ spared = {}

-----------------------------------------------------------------------------
Called == promoCalls < MaxPromoCalls /\ promoCalls' = promoCalls + 1
CouponFault ==
    couponFaults < MaxCouponFaults /\ couponFaults' = couponFaults + 1
Passed(c, from, to) == turn[c] = from /\ turn' = [turn EXCEPT ![c] = to]

(* Syncs between their look at the row of p and their insert.              *)
MakersAt(p) == {c \in Managers : turn[c] \in Coining /\ config[c] = p}

(* No other sync is there, and the row is not one that was turned off.     *)
Undisturbed(p) == MakersAt(p) = {} /\ p \in configs /\ (row[p] = 0 \/ p \in on)

(* The call goes back to its loop.                                         *)
Release(c, to) ==
    /\ turn' = [turn EXCEPT ![c] = to]
    /\ config' = [config EXCEPT ![c] = NoConfig]
    /\ coupon' = [coupon EXCEPT ![c] = 0]
    /\ UNCHANGED <<list, rest>>
Leaves(c) ==
    /\ turn' = [turn EXCEPT ![c] = "idle"]
    /\ config' = [config EXCEPT ![c] = NoConfig]
    /\ coupon' = [coupon EXCEPT ![c] = 0]
    /\ list' = [list EXCEPT ![c] = {}]
    /\ rest' = [rest EXCEPT ![c] = {}]

NewCoupon(c, p) ==
    /\ made' = [made EXCEPT ![p] = @ + 1]
    /\ live' = [live EXCEPT ![p] = @ \cup {made[p] + 1}]
    /\ coupon' = [coupon EXCEPT ![c] = made[p] + 1]

(* The unique key of promotion and config, and the foreign key of the      *)
(* config, may refuse the row.                                             *)
MayInsert(p) == row[p] = 0 /\ p \in configs
InsertRow(c, p) ==
    /\ row' = [row EXCEPT ![p] = coupon[c]]
    /\ on' = on \cup {p}
    /\ newer' = newer \cup {p}

-----------------------------------------------------------------------------
(* POST /: the promotion is there and its sync runs in the background.     *)
CreatePromotion(c) ==
    /\ promo = "none" /\ Called
    /\ promo' = "active" /\ Passed(c, "idle", "configs")
    /\ UNCHANGED <<configs, serving, row, on, live, made, config, coupon, list,
                   rest, couponFaults, promoHistory>>

(* POST /:promoId/sync-to-providers, of an inactive promotion too.         *)
Sync(c) ==
    /\ promo # "none" /\ Called
    /\ Passed(c, "idle", "configs")
    /\ UNCHANGED <<tables, live, made, config, coupon, list, rest,
                   couponFaults, promoHistory>>

ReadConfigs(c) ==
    /\ Passed(c, "configs", "next")
    /\ list' = [list EXCEPT ![c] = configs \cap serving]
    /\ UNCHANGED <<tables, live, made, config, coupon, rest, promoCalls,
                   couponFaults, promoHistory>>

(* Mutant of HasActive: references of an inactive promotion do not count.  *)
HasActiveInactive(p) == p \in on /\ promo = "active"
HasActive(p) == p \in on

(* An active reference ends the work at a config, and so do credentials    *)
(* that cannot be decrypted.                                               *)
CheckRef(c) ==
    \E p \in list[c] :
        /\ list' = [list EXCEPT ![c] = @ \ {p}]
        /\ \/ /\ HasActive(p) /\ Passed(c, "next", "next")
              /\ UNCHANGED <<config, disturbed, couponFaults>>
           \/ /\ ~HasActive(p) /\ Passed(c, "next", "create")
              /\ config' = [config EXCEPT ![c] = p]
              /\ disturbed' = IF Undisturbed(p) THEN disturbed
                              ELSE disturbed \cup {p}
              /\ UNCHANGED couponFaults
           \/ /\ Passed(c, "next", "next") /\ CouponFault
              /\ UNCHANGED <<config, disturbed>>
        /\ UNCHANGED <<tables, live, made, coupon, rest, promoCalls, others,
                       torn, newer, spared>>

(* adapter.createCoupon: a new coupon with each call; or it fails, before  *)
(* or after the provider has made one.                                     *)
CreateCoupon(c) ==
    LET p == config[c] IN
    /\ \/ /\ Passed(c, "create", "insert") /\ NewCoupon(c, p)
          /\ UNCHANGED <<config, list, rest, couponFaults, disturbed>>
       \/ /\ turn[c] = "create" /\ CouponFault
          /\ Release(c, "next")
          /\ \/ UNCHANGED <<made, live, disturbed>>
             \/ /\ made' = [made EXCEPT ![p] = @ + 1]
                /\ live' = [live EXCEPT ![p] = @ \cup {made[p] + 1}]
                /\ disturbed' = disturbed \cup {p}
    /\ UNCHANGED <<tables, promoCalls, others, torn, newer, spared>>

(* The row; an insert that fails is logged and the coupon left behind.     *)
InsertRef(c) ==
    LET p == config[c] IN
    /\ turn[c] = "insert" /\ Release(c, "next")
    /\ \/ /\ MayInsert(p) /\ InsertRow(c, p)
          /\ UNCHANGED <<couponFaults, disturbed>>
       \/ /\ ~MayInsert(p)
          /\ UNCHANGED <<row, on, newer, couponFaults, disturbed>>
       \/ /\ CouponFault /\ disturbed' = disturbed \cup {p}
          /\ UNCHANGED <<row, on, newer>>
    /\ UNCHANGED <<promo, configs, serving, live, made, promoCalls, others,
                   torn, spared>>

SyncEnds(c) ==
    /\ turn[c] = "next" /\ list[c] = {} /\ Leaves(c)
    /\ UNCHANGED <<tables, live, made, promoCalls, couponFaults, promoHistory>>

-----------------------------------------------------------------------------
(* DELETE /:promoId                                                        *)
ClosePromotion(c) ==
    /\ promo # "none" /\ Called
    /\ promo' = "inactive" /\ Passed(c, "idle", "refs")
    /\ UNCHANGED <<configs, serving, row, on, live, made, config, coupon, list,
                   rest, couponFaults, promoHistory>>

(* Mutant of ActiveRefs: those of inactive configs are not listed.         *)
ActiveRefsServing == {<<p, row[p]>> : p \in on \cap serving}
ActiveRefs == {<<p, row[p]>> : p \in on}

ReadRefs(c) ==
    /\ Passed(c, "refs", "sweep")
    /\ rest' = [rest EXCEPT ![c] = ActiveRefs]
    /\ newer' = {} /\ spared' = {}
    /\ UNCHANGED <<tables, live, made, config, coupon, list, promoCalls,
                   couponFaults, others, disturbed, torn>>

(* A config that is gone or not active, or whose credentials cannot be     *)
(* decrypted, is passed over.                                              *)
Reachable(p) == p \in configs \cap serving
TakeRef(c) ==
    \E x \in rest[c] :
        /\ rest' = [rest EXCEPT ![c] = @ \ {x}]
        /\ \/ /\ Reachable(x[1]) /\ Passed(c, "sweep", "remove")
              /\ config' = [config EXCEPT ![c] = x[1]]
              /\ coupon' = [coupon EXCEPT ![c] = x[2]]
              /\ UNCHANGED <<spared, couponFaults>>
           \/ /\ ~Reachable(x[1]) /\ Passed(c, "sweep", "sweep")
              /\ spared' = spared \cup {x[1]}
              /\ UNCHANGED <<config, coupon, couponFaults>>
           \/ /\ Passed(c, "sweep", "sweep") /\ CouponFault
              /\ spared' = spared \cup {x[1]}
              /\ UNCHANGED <<config, coupon>>
        /\ UNCHANGED <<tables, live, made, list, promoCalls, others, disturbed,
                       torn, newer>>

(* adapter.deleteCoupon: for a coupon that is not there the adapters of    *)
(* Dodo and Lemon Squeezy return and that of Stripe throws.  Dodo's looks  *)
(* at a hundred discounts only, so it may miss the coupon and return.      *)
DeleteCoupon(c) ==
    LET p == config[c] IN
    /\ \/ /\ Passed(c, "remove", "retire")
          /\ \/ live' = [live EXCEPT ![p] = @ \ {coupon[c]}]
             \/ UNCHANGED live
          /\ UNCHANGED <<config, coupon, list, rest, couponFaults, torn,
                         spared>>
       \/ /\ turn[c] = "remove" /\ coupon[c] \notin live[p]
          /\ Release(c, "sweep") /\ spared' = spared \cup {p}
          /\ UNCHANGED <<live, couponFaults, torn>>
       \/ /\ turn[c] = "remove" /\ CouponFault
          /\ Release(c, "sweep") /\ spared' = spared \cup {p}
          /\ \/ UNCHANGED <<live, torn>>
             \/ /\ live' = [live EXCEPT ![p] = @ \ {coupon[c]}]
                /\ torn' = torn \cup {p}
    /\ UNCHANGED <<tables, made, promoCalls, others, disturbed, newer>>

(* Mutant of TurnOff: only while the promotion is still inactive.          *)
TurnOffInactive(p, k) ==
    on' = IF row[p] = k /\ promo = "inactive" THEN on \ {p} ELSE on
TurnOff(p, k) == on' = IF row[p] = k THEN on \ {p} ELSE on

(* The update goes by the id of the row, which may be gone.                *)
RetireRef(c) ==
    LET p == config[c] IN
    /\ turn[c] = "retire" /\ Release(c, "sweep")
    /\ \/ /\ TurnOff(p, coupon[c])
          /\ UNCHANGED <<couponFaults, torn, spared>>
       \/ /\ CouponFault
          /\ torn' = torn \cup {p} /\ spared' = spared \cup {p}
          /\ UNCHANGED on
    /\ UNCHANGED <<promo, configs, serving, row, live, made, promoCalls,
                   others, disturbed, newer>>

DeactivateEnds(c) ==
    /\ turn[c] = "sweep" /\ rest[c] = {} /\ Leaves(c)
    /\ UNCHANGED <<tables, live, made, promoCalls, couponFaults, promoHistory>>

-----------------------------------------------------------------------------
(* PATCH /:promoId isActive, which leaves references and coupons alone.    *)
PatchPromotion ==
    /\ promo # "none" /\ Called
    /\ promo' = IF promo = "active" THEN "inactive" ELSE "active"
    /\ UNCHANGED <<configs, serving, row, on, live, made, callState,
                   couponFaults, promoHistory>>

(* POST /:promoId/provider-refs: an operator maps a coupon of his own,     *)
(* each time a new one, where there is no active reference.                *)
MapCoupon(c) ==
    \E p \in configs :
        /\ promo # "none" /\ Called /\ ~HasActive(p)
        /\ Passed(c, "idle", "map") /\ NewCoupon(c, p)
        /\ config' = [config EXCEPT ![c] = p]
        /\ others' = [others EXCEPT ![p] = @ \cup {made[p] + 1}]
        /\ UNCHANGED <<tables, list, rest, couponFaults, disturbed, torn,
                       newer, spared>>
WriteMapping(c) ==
    LET p == config[c] IN
    /\ turn[c] = "map" /\ Leaves(c)
    /\ \/ /\ MayInsert(p) /\ InsertRow(c, p)
          /\ disturbed' = IF MakersAt(p) = {} THEN disturbed
                          ELSE disturbed \cup {p}
       \/ ~MayInsert(p) /\ UNCHANGED <<row, on, newer, disturbed>>
    /\ UNCHANGED <<promo, configs, serving, live, made, promoCalls,
                   couponFaults, others, torn, spared>>

(* DELETE /:promoId/provider-refs/:refId leaves the coupon alone.          *)
Unmap ==
    \E p \in Configs :
        /\ row[p] # 0 /\ Called
        /\ on' = on \ {p}
        /\ UNCHANGED <<promo, configs, serving, row, live, made, callState,
                       couponFaults, promoHistory>>

(* PATCH /:projectId/configs/:providerId isActive                          *)
SwitchConfig ==
    \E p \in configs :
        /\ Called
        /\ serving' = IF p \in serving THEN serving \ {p} ELSE serving \cup {p}
        /\ UNCHANGED <<promo, configs, row, on, live, made, callState,
                       couponFaults, promoHistory>>

(* DELETE /:projectId/configs/:providerId, of a config without payments:   *)
(* its references first, then the config, unless a new reference names it. *)
DeleteConfig(c) ==
    \E p \in configs :
        /\ Called /\ Passed(c, "idle", "drop")
        /\ config' = [config EXCEPT ![c] = p]
        /\ UNCHANGED <<tables, live, made, coupon, list, rest, couponFaults,
                       promoHistory>>
DropRefs(c) ==
    LET p == config[c] IN
    /\ Passed(c, "drop", "delete")
    /\ row' = [row EXCEPT ![p] = 0] /\ on' = on \ {p}
    /\ others' = [others EXCEPT ![p] = @ \cup {row[p]}]
    /\ UNCHANGED <<promo, configs, serving, live, made, config, coupon, list,
                   rest, promoCalls, couponFaults, disturbed, torn, newer,
                   spared>>
DropConfig(c) ==
    LET p == config[c] IN
    /\ turn[c] = "delete" /\ Leaves(c)
    /\ configs' = IF row[p] = 0 THEN configs \ {p} ELSE configs
    /\ disturbed' = IF MakersAt(p) = {} THEN disturbed
                    ELSE disturbed \cup {p}
    /\ UNCHANGED <<promo, serving, row, on, live, made, promoCalls,
                   couponFaults, others, torn, newer, spared>>

(* The process goes, or a statement fails outside the loops.               *)
CallDies(c) ==
    /\ turn[c] # "idle" /\ CouponFault /\ Leaves(c)
    /\ disturbed' = IF turn[c] = "insert"
                    THEN disturbed \cup {config[c]} ELSE disturbed
    /\ torn' = IF turn[c] = "retire" THEN torn \cup {config[c]} ELSE torn
    /\ spared' = spared \cup {x[1] : x \in rest[c]} \cup
                 (IF turn[c] \in Erasing THEN {config[c]} ELSE {})
    /\ UNCHANGED <<tables, live, made, promoCalls, others, newer>>

PromoNext ==
    \/ PatchPromotion \/ Unmap \/ SwitchConfig
    \/ \E c \in Managers :
        \/ CreatePromotion(c) \/ Sync(c) \/ ReadConfigs(c) \/ CheckRef(c)
        \/ CreateCoupon(c) \/ InsertRef(c) \/ SyncEnds(c)
        \/ ClosePromotion(c) \/ ReadRefs(c) \/ TakeRef(c) \/ DeleteCoupon(c)
        \/ RetireRef(c) \/ DeactivateEnds(c)
        \/ MapCoupon(c) \/ WriteMapping(c)
        \/ DeleteConfig(c) \/ DropRefs(c) \/ DropConfig(c) \/ CallDies(c)

PromoSpec == PromoInit /\ [][PromoNext]_promoVars

-----------------------------------------------------------------------------
(* Coupons at a provider that a sync has made and no row names or is about *)
(* to name: customers cannot use them, and no deactivation finds them.     *)
Nameless(p) ==
    {k \in live[p] \ others[p] :
        /\ row[p] # k
        /\ \A c \in Managers : ~(/\ turn[c] = "insert" /\ config[c] = p
                               /\ coupon[c] = k)}

(* A sync leaves a nameless coupon only where it failed, met another call  *)
(* that was about to write the same row, or found a row that was turned    *)
(* off or whose config was being deleted.                                  *)
UndisturbedNamed == \A p \in Configs \ disturbed : Nameless(p) = {}

(* An active row names a coupon that the provider has, from its insert     *)
(* until a deactivation has deleted the coupon and is about to turn the    *)
(* row off, or failed to; so checkout hands over no other dead coupon.     *)
RowNamesLive ==
    \A p \in on :
        \/ row[p] \in live[p] \/ p \in torn
        \/ \E c \in Managers : /\ turn[c] = "retire" /\ config[c] = p
                             /\ coupon[c] = row[p]

(* Once a deactivation is through, no row is active but those written      *)
(* after it had read the rows and those it could not reach or failed at.   *)
Sweeping(c) ==
    rest[c] \cup
    (IF turn[c] \in Erasing THEN {<<config[c], coupon[c]>>} ELSE {})
SweepLeavesNone ==
    \A p \in on :
        \/ p \in newer \cup spared
        \/ \E c \in Managers : <<p, row[p]>> \in Sweeping(c)

=============================================================================
