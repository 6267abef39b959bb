---------------------------- MODULE Entitlements ----------------------------
(***************************************************************************)
(* What a tier allows: the tier table, and the checks that read it.  Pure  *)
(* operators.  Names, descriptions and the suggested upgrade of a refusal  *)
(* are left out; a check is reduced to whether it allows.                  *)
(***************************************************************************)
EXTENDS Integers

CONSTANTS
    FreeEntries,        \* entries of a free plan (the code has 5)
    StorageMb,          \* storage of the paid tiers (500, 2000)
    IndividualContacts, \* trusted contacts of the individual tier (1)
    FamilyProfiles      \* further profiles of a household (4)

Tiers == {"free", "individual", "family", "lifetime"}
Pillars == {"important_info", "wishes", "messages", "family_access"}

Unlimited == -1

ASSUME LimitAssumption ==
    /\ FreeEntries \in Nat
    /\ StorageMb \in [Tiers \ {"free"} -> Nat]
    /\ IndividualContacts \in Nat
    /\ FamilyProfiles \in Nat

\* TIER_CONFIG: pillars to edit, pillars to look at, quotas.
TierConfig ==
    [t \in Tiers |->
        IF t = "free"
        THEN [pillars |-> {"important_info"},
              viewOnly |-> {"wishes", "messages", "family_access"},
              quotas |-> [entries |-> FreeEntries, wishes |-> 0, legacy_messages |-> 0,
                          trusted_contacts |-> 0, family_profiles |-> 0, storage_mb |-> 0]]
        ELSE [pillars |-> Pillars,
              viewOnly |-> {},
              quotas |-> [entries |-> Unlimited, wishes |-> Unlimited, legacy_messages |-> Unlimited,
                          trusted_contacts |-> IF t = "individual" THEN IndividualContacts ELSE Unlimited,
                          family_profiles |-> IF t = "individual" THEN 0 ELSE FamilyProfiles,
                          storage_mb |-> StorageMb[t]]]]

EvaluatePillarAccess(tier, pillar) == pillar \in TierConfig[tier].pillars

EvaluateViewPillarAccess(tier, pillar) ==
    pillar \in TierConfig[tier].pillars \union TierConfig[tier].viewOnly

EvaluateQuota(tier, feature, current) ==
    LET limit == TierConfig[tier].quotas[feature]
    IN  limit = Unlimited \/ current < limit

\* Mutation: that there is room, not that the file fits in it.
RoomForSome(tier, currentMb, fileMb) ==
    LET limit == TierConfig[tier].quotas.storage_mb
    IN  limit = Unlimited \/ currentMb <= limit

\* Unlike the quota check, this one asks whether the file itself fits.
CanUploadFileSize(tier, currentMb, fileMb) ==
    LET limit == TierConfig[tier].quotas.storage_mb
    IN  limit = Unlimited \/ currentMb + fileMb <= limit
=============================================================================
