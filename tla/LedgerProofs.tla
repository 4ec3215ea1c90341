---------------------------- MODULE LedgerProofs ----------------------------
(***************************************************************************)
(* The schema, proved: any run of migrations up and down, with rows in the *)
(* tables, and any DELETE with the rows that go with it.  Then the modules *)
(* of MCLedger as one: a behaviour of the six is a behaviour of each, so   *)
(* what is proved of each holds of their composition.                      *)
(***************************************************************************)
EXTENDS MCLedger, ImportProofs, ReviewProofs

-----------------------------------------------------------------------------
(* Migrations: what the first v of them leave of each kind of object *)

ForcedAt(v) == IF v < 2 THEN {}
               ELSE IF v < 6 THEN TenantScoped \ NotForced
               ELSE (TenantScoped \ NotForced) \ {"refresh_tokens"}

TriggersAt(v) == IF v < 2 THEN {}
                 ELSE GuardTriggers \cup (IF v < 4 THEN AppendOnly ELSE PurgeTriggers)

FunctionsAt(v) ==
    IF v < 2 THEN {}
    ELSE TriggerFunctions \cup SettingReaders \cup LoginLookups
           \cup (IF v < 4 THEN {"reject_mutation"} ELSE PurgeFunctions)
           \cup (IF v < 6 THEN {} ELSE {"auth_lookup_refresh_token"})
           \cup (IF v < 9 THEN {} ELSE {"ops_platform_counters"})
           \cup (IF v < 10 THEN {} ELSE {"ops_active_tenants"})
           \cup (IF v < 11 THEN {} ELSE {"ops_tenant_id_by_slug"})

HashAt(v) == IF v = 0 THEN "none" ELSE IF v < 7 THEN "every_row" ELSE "live_rows"

KindsAt(v) == IF v = 0 THEN {}
              ELSE IF v < 8 THEN InitialKinds
              ELSE InitialKinds \cup {"output_untraceable_figure"}

StatusesAt(v) == IF v = 0 THEN {}
                 ELSE IF v < 12 THEN InitialStatuses
                 ELSE InitialStatuses \cup {"password_required"}

SchemaFields == {"tables", "policies", "forced", "triggers", "functions",
                 "mirrored", "thresholds", "hashUnique", "kinds", "statuses",
                 "unlockAttempts"}

IsSchema(s) == s = [x \in SchemaFields |-> s[x]]

TablesAt(v) == IF v = 0 THEN FALSE ELSE TRUE

PoliciesAt(v) == IF v < 2 THEN {} ELSE Isolated

MirroredAt(v) == IF v < 3 THEN {} ELSE Columns(MirroredDefaults)

ThresholdsAt(v) == IF v = 0 THEN "none" ELSE IF v < 5 THEN "float" ELSE "numeric"

UnlockAttemptsAt(v) == IF v < 12 THEN FALSE ELSE TRUE

\* What the first v migrations leave, whatever came after them and was taken
\* back.
IsAt(s, v) ==
    /\ IsSchema(s)
    /\ s.tables = TablesAt(v)
    /\ s.policies = PoliciesAt(v)
    /\ s.forced = ForcedAt(v)
    /\ s.triggers = TriggersAt(v)
    /\ s.functions = FunctionsAt(v)
    /\ s.mirrored = MirroredAt(v)
    /\ s.thresholds = ThresholdsAt(v)
    /\ s.hashUnique = HashAt(v)
    /\ s.kinds = KindsAt(v)
    /\ s.statuses = StatusesAt(v)
    /\ s.unlockAttempts = UnlockAttemptsAt(v)

\* One version has one schema.
LEMMA OneSchema ==
  ASSUME NEW v, NEW r, NEW s, IsAt(r, v), IsAt(s, v)
  PROVE  r = s
<1>1. \A x \in SchemaFields : r[x] = s[x]
  BY DEF IsAt, SchemaFields
<1>. HIDE DEF SchemaFields
<1>. QED  BY <1>1 DEF IsAt, IsSchema

Versions == 0 .. LatestVersion

\* The names the migrations take back are of no earlier one.
LEMMA NamesDiffer ==
  /\ GuardTriggers \cap AppendOnly = {}
  /\ GuardTriggers \cap PurgeTriggers = {}
  /\ AppendOnly \cap PurgeTriggers = {}
  /\ (TriggerFunctions \cup SettingReaders \cup LoginLookups)
       \cap ({"reject_mutation"} \cup PurgeFunctions) = {}
<1>1. GuardTriggers \cap AppendOnly = {}
  BY DEF GuardTriggers, AppendOnly, AuditTables
<1>2. GuardTriggers \cap PurgeTriggers = {}
  BY DEF GuardTriggers, PurgeTriggers, AuditTables
<1>3. AppendOnly \cap PurgeTriggers = {}
  BY DEF AppendOnly, PurgeTriggers, AuditTables
<1>4. (TriggerFunctions \cup SettingReaders \cup LoginLookups)
       \cap ({"reject_mutation"} \cup PurgeFunctions) = {}
  BY DEF TriggerFunctions, SettingReaders, LoginLookups, PurgeFunctions
<1>. QED  BY <1>1, <1>2, <1>3, <1>4

\* The fields that a migration leaves alone, at the versions where none
\* touches them.
LEMMA FieldsStay ==
  /\ \A v \in (0 .. 11) \ {1, 5} : ForcedAt(v + 1) = ForcedAt(v)
  /\ \A v \in (0 .. 11) \ {1, 3} : TriggersAt(v + 1) = TriggersAt(v)
  /\ \A v \in (0 .. 11) \ {1, 3, 5, 8, 9, 10} : FunctionsAt(v + 1) = FunctionsAt(v)
  /\ \A v \in (0 .. 11) \ {0} : TablesAt(v + 1) = TablesAt(v)
  /\ \A v \in (0 .. 11) \ {1} : PoliciesAt(v + 1) = PoliciesAt(v)
  /\ \A v \in (0 .. 11) \ {2} : MirroredAt(v + 1) = MirroredAt(v)
  /\ \A v \in (0 .. 11) \ {0, 4} : ThresholdsAt(v + 1) = ThresholdsAt(v)
  /\ \A v \in (0 .. 11) \ {11} : UnlockAttemptsAt(v + 1) = UnlockAttemptsAt(v)
  /\ \A v \in (0 .. 11) \ {0, 6} : HashAt(v + 1) = HashAt(v)
  /\ \A v \in (0 .. 11) \ {0, 7} : KindsAt(v + 1) = KindsAt(v)
  /\ \A v \in (0 .. 11) \ {0, 11} : StatusesAt(v + 1) = StatusesAt(v)
<1>1. \A v \in (0 .. 11) \ {1, 5} : ForcedAt(v + 1) = ForcedAt(v)
  BY DEF ForcedAt
<1>2. \A v \in (0 .. 11) \ {1, 3} : TriggersAt(v + 1) = TriggersAt(v)
  BY DEF TriggersAt
<1>3. \A v \in (0 .. 11) \ {1, 3, 5, 8, 9, 10} : FunctionsAt(v + 1) = FunctionsAt(v)
  BY DEF FunctionsAt
<1>4. \A v \in (0 .. 11) \ {0} : TablesAt(v + 1) = TablesAt(v)
  BY DEF TablesAt
<1>5. \A v \in (0 .. 11) \ {1} : PoliciesAt(v + 1) = PoliciesAt(v)
  BY DEF PoliciesAt
<1>6. \A v \in (0 .. 11) \ {2} : MirroredAt(v + 1) = MirroredAt(v)
  BY DEF MirroredAt
<1>7. \A v \in (0 .. 11) \ {0, 4} : ThresholdsAt(v + 1) = ThresholdsAt(v)
  BY DEF ThresholdsAt
<1>8. \A v \in (0 .. 11) \ {11} : UnlockAttemptsAt(v + 1) = UnlockAttemptsAt(v)
  BY DEF UnlockAttemptsAt
<1>9. \A v \in (0 .. 11) \ {0, 6} : HashAt(v + 1) = HashAt(v)
  BY DEF HashAt
<1>10. \A v \in (0 .. 11) \ {0, 7} : KindsAt(v + 1) = KindsAt(v)
  BY DEF KindsAt
<1>11. \A v \in (0 .. 11) \ {0, 11} : StatusesAt(v + 1) = StatusesAt(v)
  BY DEF StatusesAt
<1>. QED  BY <1>1, <1>2, <1>3, <1>4, <1>5, <1>6, <1>7, <1>8, <1>9, <1>10, <1>11

\* What a migration forces, and takes back.
LEMMA ForcedChange ==
  /\ ForcedAt(2) = ForcedAt(1) \cup (TenantScoped \ NotForced)
  /\ ForcedAt(1) = ForcedAt(2) \ TenantScoped
  /\ ForcedAt(6) = ForcedAt(5) \ {"refresh_tokens"}
  /\ ForcedAt(5) = ForcedAt(6) \cup {"refresh_tokens"}
<1>1. ForcedAt(2) = ForcedAt(1) \cup (TenantScoped \ NotForced)
  BY DEF ForcedAt, TenantScoped, NotForced
<1>2. ForcedAt(1) = ForcedAt(2) \ TenantScoped
  BY DEF ForcedAt, TenantScoped, NotForced
<1>3. ForcedAt(6) = ForcedAt(5) \ {"refresh_tokens"}
  BY DEF ForcedAt, TenantScoped, NotForced
<1>4. ForcedAt(5) = ForcedAt(6) \cup {"refresh_tokens"}
  BY DEF ForcedAt, TenantScoped, NotForced
<1>. QED  BY <1>1, <1>2, <1>3, <1>4

\* What a migration fires, and takes back.
LEMMA TriggersChange ==
  /\ TriggersAt(2) = TriggersAt(1) \cup GuardTriggers \cup AppendOnly
  /\ TriggersAt(1) = TriggersAt(2) \ (GuardTriggers \cup AppendOnly)
  /\ TriggersAt(4) = (TriggersAt(3) \ AppendOnly) \cup PurgeTriggers
  /\ TriggersAt(3) = (TriggersAt(4) \ PurgeTriggers) \cup AppendOnly
<1>1. TriggersAt(2) = TriggersAt(1) \cup GuardTriggers \cup AppendOnly
  BY NamesDiffer DEF TriggersAt
<1>2. TriggersAt(1) = TriggersAt(2) \ (GuardTriggers \cup AppendOnly)
  BY NamesDiffer DEF TriggersAt
<1>3. TriggersAt(4) = (TriggersAt(3) \ AppendOnly) \cup PurgeTriggers
  BY NamesDiffer DEF TriggersAt
<1>4. TriggersAt(3) = (TriggersAt(4) \ PurgeTriggers) \cup AppendOnly
  BY NamesDiffer DEF TriggersAt
<1>. QED  BY <1>1, <1>2, <1>3, <1>4

\* What a migration defines, and takes back.
LEMMA FunctionsChange ==
  /\ FunctionsAt(2) = FunctionsAt(1) \cup TriggerFunctions
                      \cup SettingReaders \cup LoginLookups \cup {"reject_mutation"}
  /\ FunctionsAt(1) = FunctionsAt(2) \ (TriggerFunctions \cup SettingReaders
                                        \cup LoginLookups \cup {"reject_mutation"})
  /\ FunctionsAt(4) = (FunctionsAt(3) \ {"reject_mutation"}) \cup PurgeFunctions
  /\ FunctionsAt(3) = (FunctionsAt(4) \ PurgeFunctions) \cup {"reject_mutation"}
  /\ FunctionsAt(6) = FunctionsAt(5) \cup {"auth_lookup_refresh_token"}
  /\ FunctionsAt(5) = FunctionsAt(6) \ {"auth_lookup_refresh_token"}
  /\ FunctionsAt(9) = FunctionsAt(8) \cup {"ops_platform_counters"}
  /\ FunctionsAt(8) = FunctionsAt(9) \ {"ops_platform_counters"}
  /\ FunctionsAt(10) = FunctionsAt(9) \cup {"ops_active_tenants"}
  /\ FunctionsAt(9) = FunctionsAt(10) \ {"ops_active_tenants"}
  /\ FunctionsAt(11) = FunctionsAt(10) \cup {"ops_tenant_id_by_slug"}
  /\ FunctionsAt(10) = FunctionsAt(11) \ {"ops_tenant_id_by_slug"}
<1>1. FunctionsAt(2) = FunctionsAt(1) \cup TriggerFunctions
                       \cup SettingReaders \cup LoginLookups \cup {"reject_mutation"}
  BY NamesDiffer
     DEF FunctionsAt, TriggerFunctions, SettingReaders, LoginLookups, PurgeFunctions
<1>2. FunctionsAt(1) = FunctionsAt(2) \ (TriggerFunctions \cup SettingReaders
                                         \cup LoginLookups \cup {"reject_mutation"})
  BY NamesDiffer
     DEF FunctionsAt, TriggerFunctions, SettingReaders, LoginLookups, PurgeFunctions
<1>3. FunctionsAt(4) = (FunctionsAt(3) \ {"reject_mutation"}) \cup PurgeFunctions
  BY NamesDiffer
     DEF FunctionsAt, TriggerFunctions, SettingReaders, LoginLookups, PurgeFunctions
<1>4. FunctionsAt(3) = (FunctionsAt(4) \ PurgeFunctions) \cup {"reject_mutation"}
  BY NamesDiffer
     DEF FunctionsAt, TriggerFunctions, SettingReaders, LoginLookups, PurgeFunctions
<1>5. FunctionsAt(6) = FunctionsAt(5) \cup {"auth_lookup_refresh_token"}
  BY NamesDiffer
     DEF FunctionsAt, TriggerFunctions, SettingReaders, LoginLookups, PurgeFunctions
<1>6. FunctionsAt(5) = FunctionsAt(6) \ {"auth_lookup_refresh_token"}
  BY NamesDiffer
     DEF FunctionsAt, TriggerFunctions, SettingReaders, LoginLookups, PurgeFunctions
<1>7. FunctionsAt(9) = FunctionsAt(8) \cup {"ops_platform_counters"}
  BY NamesDiffer
     DEF FunctionsAt, TriggerFunctions, SettingReaders, LoginLookups, PurgeFunctions
<1>8. FunctionsAt(8) = FunctionsAt(9) \ {"ops_platform_counters"}
  BY NamesDiffer
     DEF FunctionsAt, TriggerFunctions, SettingReaders, LoginLookups, PurgeFunctions
<1>9. FunctionsAt(10) = FunctionsAt(9) \cup {"ops_active_tenants"}
  BY NamesDiffer
     DEF FunctionsAt, TriggerFunctions, SettingReaders, LoginLookups, PurgeFunctions
<1>10. FunctionsAt(9) = FunctionsAt(10) \ {"ops_active_tenants"}
  BY NamesDiffer
     DEF FunctionsAt, TriggerFunctions, SettingReaders, LoginLookups, PurgeFunctions
<1>11. FunctionsAt(11) = FunctionsAt(10) \cup {"ops_tenant_id_by_slug"}
  BY NamesDiffer
     DEF FunctionsAt, TriggerFunctions, SettingReaders, LoginLookups, PurgeFunctions
<1>12. FunctionsAt(10) = FunctionsAt(11) \ {"ops_tenant_id_by_slug"}
  BY NamesDiffer
     DEF FunctionsAt, TriggerFunctions, SettingReaders, LoginLookups, PurgeFunctions
<1>. QED  BY <1>1, <1>2, <1>3, <1>4, <1>5, <1>6, <1>7, <1>8, <1>9, <1>10, <1>11, <1>12

\* What a migration mirrors, and takes back.
LEMMA MirroredChange ==
  /\ MirroredAt(3) = MirroredAt(2) \cup Columns(MirroredDefaults)
  /\ MirroredAt(2) = MirroredAt(3) \ Columns(MirroredDefaults)
<1>1. MirroredAt(3) = MirroredAt(2) \cup Columns(MirroredDefaults)
  BY DEF MirroredAt
<1>2. MirroredAt(2) = MirroredAt(3) \ Columns(MirroredDefaults)
  BY DEF MirroredAt
<1>. QED  BY <1>1, <1>2

\* What a migration makes of the constraints.
LEMMA ConstraintsAt ==
  /\ HashAt(0) = "none" /\ HashAt(1) = "every_row" /\ HashAt(6) = "every_row"
  /\ HashAt(7) = "live_rows"
  /\ KindsAt(0) = {} /\ KindsAt(1) = InitialKinds /\ KindsAt(7) = InitialKinds
  /\ KindsAt(8) = InitialKinds \cup {"output_untraceable_figure"}
  /\ StatusesAt(0) = {} /\ StatusesAt(1) = InitialStatuses
  /\ StatusesAt(11) = InitialStatuses
  /\ StatusesAt(12) = InitialStatuses \cup {"password_required"}
  BY DEF HashAt, KindsAt, StatusesAt

\* The other fields at the ends of their ranges.
LEMMA RestAt ==
  /\ TablesAt(0) = FALSE /\ TablesAt(1) = TRUE
  /\ UnlockAttemptsAt(0) = FALSE /\ UnlockAttemptsAt(1) = FALSE
  /\ UnlockAttemptsAt(11) = FALSE /\ UnlockAttemptsAt(12) = TRUE
  /\ PoliciesAt(0) = {} /\ PoliciesAt(1) = {} /\ PoliciesAt(2) = Isolated
  /\ MirroredAt(0) = {} /\ MirroredAt(1) = {} /\ MirroredAt(2) = {}
  /\ MirroredAt(3) = Columns(MirroredDefaults)
  /\ ThresholdsAt(0) = "none" /\ ThresholdsAt(1) = "float"
  /\ ThresholdsAt(4) = "float" /\ ThresholdsAt(5) = "numeric"
  /\ ForcedAt(0) = {} /\ TriggersAt(0) = {} /\ FunctionsAt(0) = {}
  /\ ForcedAt(1) = {} /\ TriggersAt(1) = {} /\ FunctionsAt(1) = {}
  BY DEF TablesAt, UnlockAttemptsAt, PoliciesAt, MirroredAt, ThresholdsAt,
         ForcedAt, TriggersAt, FunctionsAt

\* Each upgrade leads from the schema of a version to that of the next.
LEMMA UpgradeLeads ==
  ASSUME NEW v \in 0 .. 11, NEW s, IsAt(s, v)
  PROVE  IsAt(After(v, s), v + 1)
<1>0. CASE v = 0
  <2>1. /\ TablesAt(1) = TRUE /\ ThresholdsAt(1) = "float" /\ HashAt(1) = "every_row"
        /\ KindsAt(1) = InitialKinds /\ StatusesAt(1) = InitialStatuses
        /\ ForcedAt(1) = {} /\ TriggersAt(1) = {} /\ FunctionsAt(1) = {}
        /\ PoliciesAt(1) = {} /\ MirroredAt(1) = {} /\ UnlockAttemptsAt(1) = FALSE
    BY ConstraintsAt, RestAt
  <2>. DEFINE t == InitialSchema(s)
  <2>2. IsSchema(s)
    BY DEF IsAt
  <2>3. IsSchema(t)
    BY <2>2 DEF InitialSchema, Nothing, IsSchema, SchemaFields
  <2>4. /\ t.tables = TRUE
        /\ t.policies = {}
        /\ t.forced = {}
        /\ t.triggers = {}
        /\ t.functions = {}
        /\ t.mirrored = {}
        /\ t.thresholds = "float"
        /\ t.hashUnique = "every_row"
        /\ t.kinds = InitialKinds
        /\ t.statuses = InitialStatuses
        /\ t.unlockAttempts = FALSE
    BY <2>2 DEF InitialSchema, Nothing, IsSchema, SchemaFields
  <2>. HIDE DEF t
  <2>5. IsAt(t, 1)
    BY <1>0, <2>1, <2>3, <2>4 DEF IsAt, SchemaFields
  <2>. QED  BY <1>0, <2>5 DEF After, t
<1>1. CASE v = 1
  <2>0. /\ TablesAt(2) = TablesAt(1) /\ MirroredAt(2) = MirroredAt(1)
        /\ ThresholdsAt(2) = ThresholdsAt(1)
        /\ UnlockAttemptsAt(2) = UnlockAttemptsAt(1) /\ HashAt(2) = HashAt(1)
        /\ KindsAt(2) = KindsAt(1) /\ StatusesAt(2) = StatusesAt(1)
    BY <1>1, FieldsStay
  <2>1. /\ ForcedAt(2) = ForcedAt(1) \cup (TenantScoped \ NotForced)
        /\ TriggersAt(2) = TriggersAt(1) \cup GuardTriggers \cup AppendOnly
        /\ FunctionsAt(2) = FunctionsAt(1) \cup TriggerFunctions
                            \cup SettingReaders \cup LoginLookups \cup {"reject_mutation"}
        /\ PoliciesAt(2) = Isolated
    BY ForcedChange, TriggersChange, FunctionsChange, ConstraintsAt, RestAt
  <2>. DEFINE t == RowLevelSecurity(s)
  <2>2. IsSchema(s)
    BY DEF IsAt
  <2>3. IsSchema(t)
    BY <2>2 DEF RowLevelSecurity, IsSchema, SchemaFields
  <2>4. /\ t.policies = s.policies \cup Isolated
        /\ t.forced = s.forced \cup (TenantScoped \ NotForced)
        /\ t.triggers = s.triggers \cup GuardTriggers \cup AppendOnly
        /\ t.functions = s.functions \cup TriggerFunctions \cup SettingReaders
                              \cup LoginLookups \cup {"reject_mutation"}
        /\ \A x \in SchemaFields \ {"policies", "forced", "triggers", "functions"} : t[x] = s[x]
    BY <2>2 DEF RowLevelSecurity, IsSchema, SchemaFields
  <2>. HIDE DEF t
  <2>5. IsAt(t, 2)
    BY <1>1, <2>0, <2>1, <2>3, <2>4 DEF IsAt, SchemaFields
  <2>. QED  BY <1>1, <2>5 DEF After, t
<1>2. CASE v = 2
  <2>0. /\ ForcedAt(3) = ForcedAt(2) /\ TriggersAt(3) = TriggersAt(2)
        /\ FunctionsAt(3) = FunctionsAt(2) /\ TablesAt(3) = TablesAt(2)
        /\ PoliciesAt(3) = PoliciesAt(2) /\ ThresholdsAt(3) = ThresholdsAt(2)
        /\ UnlockAttemptsAt(3) = UnlockAttemptsAt(2) /\ HashAt(3) = HashAt(2)
        /\ KindsAt(3) = KindsAt(2) /\ StatusesAt(3) = StatusesAt(2)
    BY <1>2, FieldsStay
  <2>1. /\ MirroredAt(3) = MirroredAt(2) \cup Columns(MirroredDefaults)
    BY MirroredChange
  <2>. DEFINE t == ServerDefaults(s)
  <2>2. IsSchema(s)
    BY DEF IsAt
  <2>3. IsSchema(t)
    BY <2>2 DEF ServerDefaults, IsSchema, SchemaFields
  <2>4. /\ t.mirrored = s.mirrored \cup Columns(MirroredDefaults)
        /\ \A x \in SchemaFields \ {"mirrored"} : t[x] = s[x]
    BY <2>2 DEF ServerDefaults, IsSchema, SchemaFields
  <2>. HIDE DEF t
  <2>5. IsAt(t, 3)
    BY <1>2, <2>0, <2>1, <2>3, <2>4 DEF IsAt, SchemaFields
  <2>. QED  BY <1>2, <2>5 DEF After, t
<1>3. CASE v = 3
  <2>0. /\ ForcedAt(4) = ForcedAt(3) /\ TablesAt(4) = TablesAt(3)
        /\ PoliciesAt(4) = PoliciesAt(3) /\ MirroredAt(4) = MirroredAt(3)
        /\ ThresholdsAt(4) = ThresholdsAt(3)
        /\ UnlockAttemptsAt(4) = UnlockAttemptsAt(3) /\ HashAt(4) = HashAt(3)
        /\ KindsAt(4) = KindsAt(3) /\ StatusesAt(4) = StatusesAt(3)
    BY <1>3, FieldsStay
  <2>1. /\ TriggersAt(4) = (TriggersAt(3) \ AppendOnly) \cup PurgeTriggers
        /\ FunctionsAt(4) = (FunctionsAt(3) \ {"reject_mutation"}) \cup PurgeFunctions
    BY TriggersChange, FunctionsChange
  <2>. DEFINE t == AuditPurgePath(s)
  <2>2. IsSchema(s)
    BY DEF IsAt
  <2>3. IsSchema(t)
    BY <2>2 DEF AuditPurgePath, IsSchema, SchemaFields
  <2>4. /\ t.triggers = (s.triggers \ AppendOnly) \cup PurgeTriggers
        /\ t.functions = (s.functions \ {"reject_mutation"}) \cup PurgeFunctions
        /\ \A x \in SchemaFields \ {"triggers", "functions"} : t[x] = s[x]
    BY <2>2 DEF AuditPurgePath, IsSchema, SchemaFields
  <2>. HIDE DEF t
  <2>5. IsAt(t, 4)
    BY <1>3, <2>0, <2>1, <2>3, <2>4 DEF IsAt, SchemaFields
  <2>. QED  BY <1>3, <2>5 DEF After, t
<1>4. CASE v = 4
  <2>0. /\ ForcedAt(5) = ForcedAt(4) /\ TriggersAt(5) = TriggersAt(4)
        /\ FunctionsAt(5) = FunctionsAt(4) /\ TablesAt(5) = TablesAt(4)
        /\ PoliciesAt(5) = PoliciesAt(4) /\ MirroredAt(5) = MirroredAt(4)
        /\ UnlockAttemptsAt(5) = UnlockAttemptsAt(4) /\ HashAt(5) = HashAt(4)
        /\ KindsAt(5) = KindsAt(4) /\ StatusesAt(5) = StatusesAt(4)
    BY <1>4, FieldsStay
  <2>1. /\ ThresholdsAt(5) = "numeric"
    BY ConstraintsAt, RestAt
  <2>. DEFINE t == NumericThresholds(s)
  <2>2. IsSchema(s)
    BY DEF IsAt
  <2>3. IsSchema(t)
    BY <2>2 DEF NumericThresholds, IsSchema, SchemaFields
  <2>4. /\ t.thresholds = "numeric"
        /\ \A x \in SchemaFields \ {"thresholds"} : t[x] = s[x]
    BY <2>2 DEF NumericThresholds, IsSchema, SchemaFields
  <2>. HIDE DEF t
  <2>5. IsAt(t, 5)
    BY <1>4, <2>0, <2>1, <2>3, <2>4 DEF IsAt, SchemaFields
  <2>. QED  BY <1>4, <2>5 DEF After, t
<1>5. CASE v = 5
  <2>0. /\ TriggersAt(6) = TriggersAt(5) /\ TablesAt(6) = TablesAt(5)
        /\ PoliciesAt(6) = PoliciesAt(5) /\ MirroredAt(6) = MirroredAt(5)
        /\ ThresholdsAt(6) = ThresholdsAt(5)
        /\ UnlockAttemptsAt(6) = UnlockAttemptsAt(5) /\ HashAt(6) = HashAt(5)
        /\ KindsAt(6) = KindsAt(5) /\ StatusesAt(6) = StatusesAt(5)
    BY <1>5, FieldsStay
  <2>1. /\ ForcedAt(6) = ForcedAt(5) \ {"refresh_tokens"}
        /\ FunctionsAt(6) = FunctionsAt(5) \cup {"auth_lookup_refresh_token"}
    BY ForcedChange, FunctionsChange
  <2>. DEFINE t == RefreshTokenLookup(s)
  <2>2. IsSchema(s)
    BY DEF IsAt
  <2>3. IsSchema(t)
    BY <2>2 DEF RefreshTokenLookup, IsSchema, SchemaFields
  <2>4. /\ t.forced = s.forced \ {"refresh_tokens"}
        /\ t.functions = s.functions \cup {"auth_lookup_refresh_token"}
        /\ \A x \in SchemaFields \ {"forced", "functions"} : t[x] = s[x]
    BY <2>2 DEF RefreshTokenLookup, IsSchema, SchemaFields
  <2>. HIDE DEF t
  <2>5. IsAt(t, 6)
    BY <1>5, <2>0, <2>1, <2>3, <2>4 DEF IsAt, SchemaFields
  <2>. QED  BY <1>5, <2>5 DEF After, t
<1>6. CASE v = 6
  <2>0. /\ ForcedAt(7) = ForcedAt(6) /\ TriggersAt(7) = TriggersAt(6)
        /\ FunctionsAt(7) = FunctionsAt(6) /\ TablesAt(7) = TablesAt(6)
        /\ PoliciesAt(7) = PoliciesAt(6) /\ MirroredAt(7) = MirroredAt(6)
        /\ ThresholdsAt(7) = ThresholdsAt(6)
        /\ UnlockAttemptsAt(7) = UnlockAttemptsAt(6) /\ KindsAt(7) = KindsAt(6)
        /\ StatusesAt(7) = StatusesAt(6)
    BY <1>6, FieldsStay
  <2>1. /\ HashAt(7) = "live_rows"
    BY ConstraintsAt, RestAt
  <2>. DEFINE t == PartialHash(s)
  <2>2. IsSchema(s)
    BY DEF IsAt
  <2>3. IsSchema(t)
    BY <2>2 DEF PartialHash, IsSchema, SchemaFields
  <2>4. /\ t.hashUnique = "live_rows"
        /\ \A x \in SchemaFields \ {"hashUnique"} : t[x] = s[x]
    BY <2>2 DEF PartialHash, IsSchema, SchemaFields
  <2>. HIDE DEF t
  <2>5. IsAt(t, 7)
    BY <1>6, <2>0, <2>1, <2>3, <2>4 DEF IsAt, SchemaFields
  <2>. QED  BY <1>6, <2>5 DEF After, t
<1>7. CASE v = 7
  <2>0. /\ ForcedAt(8) = ForcedAt(7) /\ TriggersAt(8) = TriggersAt(7)
        /\ FunctionsAt(8) = FunctionsAt(7) /\ TablesAt(8) = TablesAt(7)
        /\ PoliciesAt(8) = PoliciesAt(7) /\ MirroredAt(8) = MirroredAt(7)
        /\ ThresholdsAt(8) = ThresholdsAt(7)
        /\ UnlockAttemptsAt(8) = UnlockAttemptsAt(7) /\ HashAt(8) = HashAt(7)
        /\ StatusesAt(8) = StatusesAt(7)
    BY <1>7, FieldsStay
  <2>1. /\ KindsAt(8) = InitialKinds \cup {"output_untraceable_figure"}
    BY ConstraintsAt, RestAt
  <2>. DEFINE t == AssistantIncidents(s)
  <2>2. IsSchema(s)
    BY DEF IsAt
  <2>3. IsSchema(t)
    BY <2>2 DEF AssistantIncidents, IsSchema, SchemaFields
  <2>4. /\ t.kinds = InitialKinds \cup {"output_untraceable_figure"}
        /\ \A x \in SchemaFields \ {"kinds"} : t[x] = s[x]
    BY <2>2 DEF AssistantIncidents, IsSchema, SchemaFields
  <2>. HIDE DEF t
  <2>5. IsAt(t, 8)
    BY <1>7, <2>0, <2>1, <2>3, <2>4 DEF IsAt, SchemaFields
  <2>. QED  BY <1>7, <2>5 DEF After, t
<1>8. CASE v = 8
  <2>0. /\ ForcedAt(9) = ForcedAt(8) /\ TriggersAt(9) = TriggersAt(8)
        /\ TablesAt(9) = TablesAt(8) /\ PoliciesAt(9) = PoliciesAt(8)
        /\ MirroredAt(9) = MirroredAt(8) /\ ThresholdsAt(9) = ThresholdsAt(8)
        /\ UnlockAttemptsAt(9) = UnlockAttemptsAt(8) /\ HashAt(9) = HashAt(8)
        /\ KindsAt(9) = KindsAt(8) /\ StatusesAt(9) = StatusesAt(8)
    BY <1>8, FieldsStay
  <2>1. /\ FunctionsAt(9) = FunctionsAt(8) \cup {"ops_platform_counters"}
    BY FunctionsChange
  <2>. DEFINE t == PlatformCounters(s)
  <2>2. IsSchema(s)
    BY DEF IsAt
  <2>3. IsSchema(t)
    BY <2>2 DEF PlatformCounters, IsSchema, SchemaFields
  <2>4. /\ t.functions = s.functions \cup {"ops_platform_counters"}
        /\ \A x \in SchemaFields \ {"functions"} : t[x] = s[x]
    BY <2>2 DEF PlatformCounters, IsSchema, SchemaFields
  <2>. HIDE DEF t
  <2>5. IsAt(t, 9)
    BY <1>8, <2>0, <2>1, <2>3, <2>4 DEF IsAt, SchemaFields
  <2>. QED  BY <1>8, <2>5 DEF After, t
<1>9. CASE v = 9
  <2>0. /\ ForcedAt(10) = ForcedAt(9) /\ TriggersAt(10) = TriggersAt(9)
        /\ TablesAt(10) = TablesAt(9) /\ PoliciesAt(10) = PoliciesAt(9)
        /\ MirroredAt(10) = MirroredAt(9) /\ ThresholdsAt(10) = ThresholdsAt(9)
        /\ UnlockAttemptsAt(10) = UnlockAttemptsAt(9) /\ HashAt(10) = HashAt(9)
        /\ KindsAt(10) = KindsAt(9) /\ StatusesAt(10) = StatusesAt(9)
    BY <1>9, FieldsStay
  <2>1. /\ FunctionsAt(10) = FunctionsAt(9) \cup {"ops_active_tenants"}
    BY FunctionsChange
  <2>. DEFINE t == ActiveTenants(s)
  <2>2. IsSchema(s)
    BY DEF IsAt
  <2>3. IsSchema(t)
    BY <2>2 DEF ActiveTenants, IsSchema, SchemaFields
  <2>4. /\ t.functions = s.functions \cup {"ops_active_tenants"}
        /\ \A x \in SchemaFields \ {"functions"} : t[x] = s[x]
    BY <2>2 DEF ActiveTenants, IsSchema, SchemaFields
  <2>. HIDE DEF t
  <2>5. IsAt(t, 10)
    BY <1>9, <2>0, <2>1, <2>3, <2>4 DEF IsAt, SchemaFields
  <2>. QED  BY <1>9, <2>5 DEF After, t
<1>10. CASE v = 10
  <2>0. /\ ForcedAt(11) = ForcedAt(10) /\ TriggersAt(11) = TriggersAt(10)
        /\ TablesAt(11) = TablesAt(10) /\ PoliciesAt(11) = PoliciesAt(10)
        /\ MirroredAt(11) = MirroredAt(10) /\ ThresholdsAt(11) = ThresholdsAt(10)
        /\ UnlockAttemptsAt(11) = UnlockAttemptsAt(10) /\ HashAt(11) = HashAt(10)
        /\ KindsAt(11) = KindsAt(10) /\ StatusesAt(11) = StatusesAt(10)
    BY <1>10, FieldsStay
  <2>1. /\ FunctionsAt(11) = FunctionsAt(10) \cup {"ops_tenant_id_by_slug"}
    BY FunctionsChange
  <2>. DEFINE t == TenantBySlug(s)
  <2>2. IsSchema(s)
    BY DEF IsAt
  <2>3. IsSchema(t)
    BY <2>2 DEF TenantBySlug, IsSchema, SchemaFields
  <2>4. /\ t.functions = s.functions \cup {"ops_tenant_id_by_slug"}
        /\ \A x \in SchemaFields \ {"functions"} : t[x] = s[x]
    BY <2>2 DEF TenantBySlug, IsSchema, SchemaFields
  <2>. HIDE DEF t
  <2>5. IsAt(t, 11)
    BY <1>10, <2>0, <2>1, <2>3, <2>4 DEF IsAt, SchemaFields
  <2>. QED  BY <1>10, <2>5 DEF After, t
<1>11. CASE v = 11
  <2>0. /\ ForcedAt(12) = ForcedAt(11) /\ TriggersAt(12) = TriggersAt(11)
        /\ FunctionsAt(12) = FunctionsAt(11) /\ TablesAt(12) = TablesAt(11)
        /\ PoliciesAt(12) = PoliciesAt(11) /\ MirroredAt(12) = MirroredAt(11)
        /\ ThresholdsAt(12) = ThresholdsAt(11) /\ HashAt(12) = HashAt(11)
        /\ KindsAt(12) = KindsAt(11)
    BY <1>11, FieldsStay
  <2>1. /\ UnlockAttemptsAt(12) = TRUE
        /\ StatusesAt(12) = InitialStatuses \cup {"password_required"}
    BY ConstraintsAt, RestAt
  <2>. DEFINE t == LockedStatements(s)
  <2>2. IsSchema(s)
    BY DEF IsAt
  <2>3. IsSchema(t)
    BY <2>2 DEF LockedStatements, IsSchema, SchemaFields
  <2>4. /\ t.statuses = InitialStatuses \cup {"password_required"}
        /\ t.unlockAttempts = TRUE
        /\ \A x \in SchemaFields \ {"statuses", "unlockAttempts"} : t[x] = s[x]
    BY <2>2 DEF LockedStatements, IsSchema, SchemaFields
  <2>. HIDE DEF t
  <2>5. t.statuses = StatusesAt(12) /\ t.unlockAttempts = UnlockAttemptsAt(12)
    BY <2>1, <2>4
  <2>6. IsAt(t, 12)
    BY <1>11, <2>0, <2>3, <2>4, <2>5 DEF IsAt, SchemaFields
  <2>. QED  BY <1>11, <2>6 DEF After, t
<1>. QED  BY <1>0, <1>1, <1>2, <1>3, <1>4, <1>5, <1>6, <1>7, <1>8, <1>9, <1>10, <1>11

\* Each downgrade leads back to it.
LEMMA DowngradeLeads ==
  ASSUME NEW v \in 1 .. 12, NEW s, IsAt(s, v)
  PROVE  IsAt(Before(v, s), v - 1)
<1>1. CASE v = 1
  <2>1. /\ TablesAt(0) = FALSE /\ ThresholdsAt(0) = "none" /\ HashAt(0) = "none"
        /\ KindsAt(0) = {} /\ StatusesAt(0) = {} /\ ForcedAt(0) = {}
        /\ TriggersAt(0) = {} /\ FunctionsAt(0) = {} /\ PoliciesAt(0) = {}
        /\ MirroredAt(0) = {} /\ UnlockAttemptsAt(0) = FALSE
    BY ConstraintsAt, RestAt
  <2>. DEFINE t == DropInitialSchema(s)
  <2>2. IsSchema(s)
    BY DEF IsAt
  <2>3. IsSchema(t)
    BY <2>2 DEF DropInitialSchema, Nothing, IsSchema, SchemaFields
  <2>4. /\ t.tables = FALSE
        /\ t.policies = {}
        /\ t.forced = {}
        /\ t.triggers = {}
        /\ t.functions = {}
        /\ t.mirrored = {}
        /\ t.thresholds = "none"
        /\ t.hashUnique = "none"
        /\ t.kinds = {}
        /\ t.statuses = {}
        /\ t.unlockAttempts = FALSE
    BY <2>2 DEF DropInitialSchema, Nothing, IsSchema, SchemaFields
  <2>. HIDE DEF t
  <2>5. IsAt(t, 0)
    BY <1>1, <2>1, <2>3, <2>4 DEF IsAt, SchemaFields
  <2>. QED  BY <1>1, <2>5 DEF Before, t
<1>2. CASE v = 2
  <2>0. /\ TablesAt(1) = TablesAt(2) /\ MirroredAt(1) = MirroredAt(2)
        /\ ThresholdsAt(1) = ThresholdsAt(2)
        /\ UnlockAttemptsAt(1) = UnlockAttemptsAt(2) /\ HashAt(1) = HashAt(2)
        /\ KindsAt(1) = KindsAt(2) /\ StatusesAt(1) = StatusesAt(2)
    BY <1>2, FieldsStay
  <2>1. /\ ForcedAt(1) = ForcedAt(2) \ TenantScoped
        /\ TriggersAt(1) = TriggersAt(2) \ (GuardTriggers \cup AppendOnly)
        /\ FunctionsAt(1) = FunctionsAt(2) \ (TriggerFunctions \cup SettingReaders
                                              \cup LoginLookups \cup {"reject_mutation"})
        /\ PoliciesAt(1) = {}
    BY ForcedChange, TriggersChange, FunctionsChange, ConstraintsAt, RestAt
  <2>. DEFINE t == DropRowLevelSecurity(s)
  <2>2. IsSchema(s)
    BY DEF IsAt
  <2>3. IsSchema(t)
    BY <2>2 DEF DropRowLevelSecurity, IsSchema, SchemaFields
  <2>4. /\ t.policies = s.policies \ Isolated
        /\ t.forced = s.forced \ TenantScoped
        /\ t.triggers = s.triggers \ (GuardTriggers \cup AppendOnly)
        /\ t.functions = s.functions \ (TriggerFunctions \cup SettingReaders
                              \cup LoginLookups \cup {"reject_mutation"})
        /\ \A x \in SchemaFields \ {"policies", "forced", "triggers", "functions"} : t[x] = s[x]
    BY <2>2 DEF DropRowLevelSecurity, IsSchema, SchemaFields
  <2>. HIDE DEF t
  <2>5. IsAt(t, 1)
    BY <1>2, <2>0, <2>1, <2>3, <2>4 DEF IsAt, SchemaFields
  <2>. QED  BY <1>2, <2>5 DEF Before, t
<1>3. CASE v = 3
  <2>0. /\ ForcedAt(2) = ForcedAt(3) /\ TriggersAt(2) = TriggersAt(3)
        /\ FunctionsAt(2) = FunctionsAt(3) /\ TablesAt(2) = TablesAt(3)
        /\ PoliciesAt(2) = PoliciesAt(3) /\ ThresholdsAt(2) = ThresholdsAt(3)
        /\ UnlockAttemptsAt(2) = UnlockAttemptsAt(3) /\ HashAt(2) = HashAt(3)
        /\ KindsAt(2) = KindsAt(3) /\ StatusesAt(2) = StatusesAt(3)
    BY <1>3, FieldsStay
  <2>1. /\ MirroredAt(2) = MirroredAt(3) \ Columns(MirroredDefaults)
    BY MirroredChange
  <2>. DEFINE t == DropServerDefaults(s)
  <2>2. IsSchema(s)
    BY DEF IsAt
  <2>3. IsSchema(t)
    BY <2>2 DEF DropServerDefaults, IsSchema, SchemaFields
  <2>4. /\ t.mirrored = s.mirrored \ Columns(MirroredDefaults)
        /\ \A x \in SchemaFields \ {"mirrored"} : t[x] = s[x]
    BY <2>2 DEF DropServerDefaults, IsSchema, SchemaFields
  <2>. HIDE DEF t
  <2>5. IsAt(t, 2)
    BY <1>3, <2>0, <2>1, <2>3, <2>4 DEF IsAt, SchemaFields
  <2>. QED  BY <1>3, <2>5 DEF Before, t
<1>4. CASE v = 4
  <2>0. /\ ForcedAt(3) = ForcedAt(4) /\ TablesAt(3) = TablesAt(4)
        /\ PoliciesAt(3) = PoliciesAt(4) /\ MirroredAt(3) = MirroredAt(4)
        /\ ThresholdsAt(3) = ThresholdsAt(4)
        /\ UnlockAttemptsAt(3) = UnlockAttemptsAt(4) /\ HashAt(3) = HashAt(4)
        /\ KindsAt(3) = KindsAt(4) /\ StatusesAt(3) = StatusesAt(4)
    BY <1>4, FieldsStay
  <2>1. /\ TriggersAt(3) = (TriggersAt(4) \ PurgeTriggers) \cup AppendOnly
        /\ FunctionsAt(3) = (FunctionsAt(4) \ PurgeFunctions) \cup {"reject_mutation"}
    BY TriggersChange, FunctionsChange
  <2>. DEFINE t == DropAuditPurgePath(s)
  <2>2. IsSchema(s)
    BY DEF IsAt
  <2>3. IsSchema(t)
    BY <2>2 DEF DropAuditPurgePath, IsSchema, SchemaFields
  <2>4. /\ t.triggers = (s.triggers \ PurgeTriggers) \cup AppendOnly
        /\ t.functions = (s.functions \ PurgeFunctions) \cup {"reject_mutation"}
        /\ \A x \in SchemaFields \ {"triggers", "functions"} : t[x] = s[x]
    BY <2>2 DEF DropAuditPurgePath, IsSchema, SchemaFields
  <2>. HIDE DEF t
  <2>5. IsAt(t, 3)
    BY <1>4, <2>0, <2>1, <2>3, <2>4 DEF IsAt, SchemaFields
  <2>. QED  BY <1>4, <2>5 DEF Before, t
<1>5. CASE v = 5
  <2>0. /\ ForcedAt(4) = ForcedAt(5) /\ TriggersAt(4) = TriggersAt(5)
        /\ FunctionsAt(4) = FunctionsAt(5) /\ TablesAt(4) = TablesAt(5)
        /\ PoliciesAt(4) = PoliciesAt(5) /\ MirroredAt(4) = MirroredAt(5)
        /\ UnlockAttemptsAt(4) = UnlockAttemptsAt(5) /\ HashAt(4) = HashAt(5)
        /\ KindsAt(4) = KindsAt(5) /\ StatusesAt(4) = StatusesAt(5)
    BY <1>5, FieldsStay
  <2>1. /\ ThresholdsAt(4) = "float"
    BY ConstraintsAt, RestAt
  <2>. DEFINE t == FloatThresholds(s)
  <2>2. IsSchema(s)
    BY DEF IsAt
  <2>3. IsSchema(t)
    BY <2>2 DEF FloatThresholds, IsSchema, SchemaFields
  <2>4. /\ t.thresholds = "float"
        /\ \A x \in SchemaFields \ {"thresholds"} : t[x] = s[x]
    BY <2>2 DEF FloatThresholds, IsSchema, SchemaFields
  <2>. HIDE DEF t
  <2>5. IsAt(t, 4)
    BY <1>5, <2>0, <2>1, <2>3, <2>4 DEF IsAt, SchemaFields
  <2>. QED  BY <1>5, <2>5 DEF Before, t
<1>6. CASE v = 6
  <2>0. /\ TriggersAt(5) = TriggersAt(6) /\ TablesAt(5) = TablesAt(6)
        /\ PoliciesAt(5) = PoliciesAt(6) /\ MirroredAt(5) = MirroredAt(6)
        /\ ThresholdsAt(5) = ThresholdsAt(6)
        /\ UnlockAttemptsAt(5) = UnlockAttemptsAt(6) /\ HashAt(5) = HashAt(6)
        /\ KindsAt(5) = KindsAt(6) /\ StatusesAt(5) = StatusesAt(6)
    BY <1>6, FieldsStay
  <2>1. /\ ForcedAt(5) = ForcedAt(6) \cup {"refresh_tokens"}
        /\ FunctionsAt(5) = FunctionsAt(6) \ {"auth_lookup_refresh_token"}
    BY ForcedChange, FunctionsChange
  <2>. DEFINE t == DropRefreshTokenLookup(s)
  <2>2. IsSchema(s)
    BY DEF IsAt
  <2>3. IsSchema(t)
    BY <2>2 DEF DropRefreshTokenLookup, IsSchema, SchemaFields
  <2>4. /\ t.forced = s.forced \cup {"refresh_tokens"}
        /\ t.functions = s.functions \ {"auth_lookup_refresh_token"}
        /\ \A x \in SchemaFields \ {"forced", "functions"} : t[x] = s[x]
    BY <2>2 DEF DropRefreshTokenLookup, IsSchema, SchemaFields
  <2>. HIDE DEF t
  <2>5. IsAt(t, 5)
    BY <1>6, <2>0, <2>1, <2>3, <2>4 DEF IsAt, SchemaFields
  <2>. QED  BY <1>6, <2>5 DEF Before, t
<1>7. CASE v = 7
  <2>0. /\ ForcedAt(6) = ForcedAt(7) /\ TriggersAt(6) = TriggersAt(7)
        /\ FunctionsAt(6) = FunctionsAt(7) /\ TablesAt(6) = TablesAt(7)
        /\ PoliciesAt(6) = PoliciesAt(7) /\ MirroredAt(6) = MirroredAt(7)
        /\ ThresholdsAt(6) = ThresholdsAt(7)
        /\ UnlockAttemptsAt(6) = UnlockAttemptsAt(7) /\ KindsAt(6) = KindsAt(7)
        /\ StatusesAt(6) = StatusesAt(7)
    BY <1>7, FieldsStay
  <2>1. /\ HashAt(6) = "every_row"
    BY ConstraintsAt, RestAt
  <2>. DEFINE t == FullHash(s)
  <2>2. IsSchema(s)
    BY DEF IsAt
  <2>3. IsSchema(t)
    BY <2>2 DEF FullHash, IsSchema, SchemaFields
  <2>4. /\ t.hashUnique = "every_row"
        /\ \A x \in SchemaFields \ {"hashUnique"} : t[x] = s[x]
    BY <2>2 DEF FullHash, IsSchema, SchemaFields
  <2>. HIDE DEF t
  <2>5. IsAt(t, 6)
    BY <1>7, <2>0, <2>1, <2>3, <2>4 DEF IsAt, SchemaFields
  <2>. QED  BY <1>7, <2>5 DEF Before, t
<1>8. CASE v = 8
  <2>0. /\ ForcedAt(7) = ForcedAt(8) /\ TriggersAt(7) = TriggersAt(8)
        /\ FunctionsAt(7) = FunctionsAt(8) /\ TablesAt(7) = TablesAt(8)
        /\ PoliciesAt(7) = PoliciesAt(8) /\ MirroredAt(7) = MirroredAt(8)
        /\ ThresholdsAt(7) = ThresholdsAt(8)
        /\ UnlockAttemptsAt(7) = UnlockAttemptsAt(8) /\ HashAt(7) = HashAt(8)
        /\ StatusesAt(7) = StatusesAt(8)
    BY <1>8, FieldsStay
  <2>1. /\ KindsAt(7) = InitialKinds
    BY ConstraintsAt, RestAt
  <2>. DEFINE t == DropAssistantIncidents(s)
  <2>2. IsSchema(s)
    BY DEF IsAt
  <2>3. IsSchema(t)
    BY <2>2 DEF DropAssistantIncidents, IsSchema, SchemaFields
  <2>4. /\ t.kinds = InitialKinds
        /\ \A x \in SchemaFields \ {"kinds"} : t[x] = s[x]
    BY <2>2 DEF DropAssistantIncidents, IsSchema, SchemaFields
  <2>. HIDE DEF t
  <2>5. IsAt(t, 7)
    BY <1>8, <2>0, <2>1, <2>3, <2>4 DEF IsAt, SchemaFields
  <2>. QED  BY <1>8, <2>5 DEF Before, t
<1>9. CASE v = 9
  <2>0. /\ ForcedAt(8) = ForcedAt(9) /\ TriggersAt(8) = TriggersAt(9)
        /\ TablesAt(8) = TablesAt(9) /\ PoliciesAt(8) = PoliciesAt(9)
        /\ MirroredAt(8) = MirroredAt(9) /\ ThresholdsAt(8) = ThresholdsAt(9)
        /\ UnlockAttemptsAt(8) = UnlockAttemptsAt(9) /\ HashAt(8) = HashAt(9)
        /\ KindsAt(8) = KindsAt(9) /\ StatusesAt(8) = StatusesAt(9)
    BY <1>9, FieldsStay
  <2>1. /\ FunctionsAt(8) = FunctionsAt(9) \ {"ops_platform_counters"}
    BY FunctionsChange
  <2>. DEFINE t == DropPlatformCounters(s)
  <2>2. IsSchema(s)
    BY DEF IsAt
  <2>3. IsSchema(t)
    BY <2>2 DEF DropPlatformCounters, IsSchema, SchemaFields
  <2>4. /\ t.functions = s.functions \ {"ops_platform_counters"}
        /\ \A x \in SchemaFields \ {"functions"} : t[x] = s[x]
    BY <2>2 DEF DropPlatformCounters, IsSchema, SchemaFields
  <2>. HIDE DEF t
  <2>5. IsAt(t, 8)
    BY <1>9, <2>0, <2>1, <2>3, <2>4 DEF IsAt, SchemaFields
  <2>. QED  BY <1>9, <2>5 DEF Before, t
<1>10. CASE v = 10
  <2>0. /\ ForcedAt(9) = ForcedAt(10) /\ TriggersAt(9) = TriggersAt(10)
        /\ TablesAt(9) = TablesAt(10) /\ PoliciesAt(9) = PoliciesAt(10)
        /\ MirroredAt(9) = MirroredAt(10) /\ ThresholdsAt(9) = ThresholdsAt(10)
        /\ UnlockAttemptsAt(9) = UnlockAttemptsAt(10) /\ HashAt(9) = HashAt(10)
        /\ KindsAt(9) = KindsAt(10) /\ StatusesAt(9) = StatusesAt(10)
    BY <1>10, FieldsStay
  <2>1. /\ FunctionsAt(9) = FunctionsAt(10) \ {"ops_active_tenants"}
    BY FunctionsChange
  <2>. DEFINE t == DropActiveTenants(s)
  <2>2. IsSchema(s)
    BY DEF IsAt
  <2>3. IsSchema(t)
    BY <2>2 DEF DropActiveTenants, IsSchema, SchemaFields
  <2>4. /\ t.functions = s.functions \ {"ops_active_tenants"}
        /\ \A x \in SchemaFields \ {"functions"} : t[x] = s[x]
    BY <2>2 DEF DropActiveTenants, IsSchema, SchemaFields
  <2>. HIDE DEF t
  <2>5. IsAt(t, 9)
    BY <1>10, <2>0, <2>1, <2>3, <2>4 DEF IsAt, SchemaFields
  <2>. QED  BY <1>10, <2>5 DEF Before, t
<1>11. CASE v = 11
  <2>0. /\ ForcedAt(10) = ForcedAt(11) /\ TriggersAt(10) = TriggersAt(11)
        /\ TablesAt(10) = TablesAt(11) /\ PoliciesAt(10) = PoliciesAt(11)
        /\ MirroredAt(10) = MirroredAt(11) /\ ThresholdsAt(10) = ThresholdsAt(11)
        /\ UnlockAttemptsAt(10) = UnlockAttemptsAt(11) /\ HashAt(10) = HashAt(11)
        /\ KindsAt(10) = KindsAt(11) /\ StatusesAt(10) = StatusesAt(11)
    BY <1>11, FieldsStay
  <2>1. /\ FunctionsAt(10) = FunctionsAt(11) \ {"ops_tenant_id_by_slug"}
    BY FunctionsChange
  <2>. DEFINE t == DropTenantBySlug(s)
  <2>2. IsSchema(s)
    BY DEF IsAt
  <2>3. IsSchema(t)
    BY <2>2 DEF DropTenantBySlug, IsSchema, SchemaFields
  <2>4. /\ t.functions = s.functions \ {"ops_tenant_id_by_slug"}
        /\ \A x \in SchemaFields \ {"functions"} : t[x] = s[x]
    BY <2>2 DEF DropTenantBySlug, IsSchema, SchemaFields
  <2>. HIDE DEF t
  <2>5. IsAt(t, 10)
    BY <1>11, <2>0, <2>1, <2>3, <2>4 DEF IsAt, SchemaFields
  <2>. QED  BY <1>11, <2>5 DEF Before, t
<1>12. CASE v = 12
  <2>0. /\ ForcedAt(11) = ForcedAt(12) /\ TriggersAt(11) = TriggersAt(12)
        /\ FunctionsAt(11) = FunctionsAt(12) /\ TablesAt(11) = TablesAt(12)
        /\ PoliciesAt(11) = PoliciesAt(12) /\ MirroredAt(11) = MirroredAt(12)
        /\ ThresholdsAt(11) = ThresholdsAt(12) /\ HashAt(11) = HashAt(12)
        /\ KindsAt(11) = KindsAt(12)
    BY <1>12, FieldsStay
  <2>1. /\ UnlockAttemptsAt(11) = FALSE /\ StatusesAt(11) = InitialStatuses
    BY ConstraintsAt, RestAt
  <2>. DEFINE t == DropLockedStatements(s)
  <2>2. IsSchema(s)
    BY DEF IsAt
  <2>3. IsSchema(t)
    BY <2>2 DEF DropLockedStatements, IsSchema, SchemaFields
  <2>4. /\ t.statuses = InitialStatuses
        /\ t.unlockAttempts = FALSE
        /\ \A x \in SchemaFields \ {"statuses", "unlockAttempts"} : t[x] = s[x]
    BY <2>2 DEF DropLockedStatements, IsSchema, SchemaFields
  <2>. HIDE DEF t
  <2>5. IsAt(t, 11)
    BY <1>12, <2>0, <2>1, <2>3, <2>4 DEF IsAt, SchemaFields
  <2>. QED  BY <1>12, <2>5 DEF Before, t
<1>. QED  BY <1>1, <1>2, <1>3, <1>4, <1>5, <1>6, <1>7, <1>8, <1>9, <1>10, <1>11, <1>12

-----------------------------------------------------------------------------
(* Migrations: the rows written at the versions *)

StatementRow ==
    [content : Contents, deleted : Nat,
     status : InitialStatuses \cup {"password_required"}]

DeletedRows(fs) == {f \in fs : f.deleted > 0}

\* The rows are finitely many, numbered as they were deleted; a deleted one
\* was processed. Between two rows of one content one is deleted.
RowsInv ==
    /\ files \in SUBSET StatementRow
    /\ IsFiniteSet(files) /\ Cardinality(files) <= MaxStatements
    /\ \A f \in files : /\ f.deleted <= Cardinality(DeletedRows(files))
                        /\ f.deleted > 0 => f.status = "processed"

SameContent == \E f, g \in files : f # g /\ f.content = g.content

\* The one downgrade that was ever refused is that of 0007, over two rows
\* that stay; so the schema never got below it again.
RefusedInv == refused # 0 => refused = 7 /\ version >= 7 /\ SameContent

HistoryInv ==
    /\ version \in Versions
    /\ IsAt(schema, version)
    /\ DOMAIN remembered \subseteq Versions
    /\ \A v \in DOMAIN remembered : IsAt(remembered[v], v)
    /\ RowsInv
    /\ Fits(schema, files, incidents)
    /\ RefusedInv

\* At the start there is no schema.
LEMMA HistoryStart == MigrationsInit => HistoryInv
<1>. SUFFICES ASSUME MigrationsInit PROVE HistoryInv
  OBVIOUS
<1>1. IsAt(Nothing, 0)
  <2>1. IsSchema(Nothing)
    BY DEF Nothing, IsSchema, SchemaFields
  <2>2. HashAt(0) = "none" /\ KindsAt(0) = {} /\ StatusesAt(0) = {}
    BY ConstraintsAt
  <2>. QED  BY <2>1, <2>2, RestAt DEF IsAt, Nothing
<1>2. Cardinality({}) = 0 /\ IsFiniteSet({})
  BY FS_EmptySet
<1>. QED  BY <1>1, <1>2, MigrationsAssumption
  DEF MigrationsInit, HistoryInv, RowsInv, RefusedInv, Fits, Versions, LatestVersion

\* The number of the next deletion is of no row, and the rows deleted are
\* no more than the rows.
LEMMA DeletionsCounted ==
  ASSUME RowsInv
  PROVE  /\ IsFiniteSet(DeletedRows(files))
         /\ Cardinality(DeletedRows(files)) \in Nat
         /\ Cardinality(files) \in Nat
         /\ Cardinality(DeletedRows(files)) <= Cardinality(files)
         /\ NextDeletion = 1 + Cardinality(DeletedRows(files))
BY FS_Subset, FS_CardinalityType DEF RowsInv, DeletedRows, NextDeletion

\* What each version asks of the rows.
LEMMA Asked ==
  ASSUME NEW v \in Versions, NEW s, IsAt(s, v), NEW fs, NEW is
  PROVE  Fits(s, fs, is) <=>
           /\ is \subseteq KindsAt(v)
           /\ \A f \in fs : f.status \in StatusesAt(v)
           /\ \A f, g \in fs : (f # g /\ f.content = g.content) =>
                \/ HashAt(v) = "none"
                \/ HashAt(v) = "live_rows" /\ f.deleted + g.deleted > 0
BY DEF Fits, IsAt

\* Only the uniqueness of the hash can stop a downgrade.
LEMMA OthersFit ==
  ASSUME HistoryInv, NEW s, IsAt(s, version - 1), version > 0, version # 7
  PROVE  Fits(s, FilesBefore(version), IncidentsBefore(version))
<1>. DEFINE fs == FilesBefore(version)
            is == IncidentsBefore(version)
<1>0. version \in 1 .. 12 /\ version - 1 \in Versions
  BY DEF HistoryInv, Versions, LatestVersion
<1>1. /\ incidents \subseteq KindsAt(version)
      /\ \A f \in files : f.status \in StatusesAt(version)
      /\ \A f, g \in files : (f # g /\ f.content = g.content) =>
                \/ HashAt(version) = "none"
                \/ HashAt(version) = "live_rows" /\ f.deleted + g.deleted > 0
  BY Asked DEF HistoryInv
<1>2. CASE version = 12
  <2>1. /\ KindsAt(11) = KindsAt(12) /\ HashAt(11) = "live_rows" /\ HashAt(12) = "live_rows"
        /\ StatusesAt(11) = InitialStatuses
    BY DEF KindsAt, HashAt, StatusesAt
  <2>2. is = incidents
    BY <1>2 DEF IncidentsBefore
  <2>3. fs = {[f EXCEPT !.status = IF @ = "password_required" THEN "failed" ELSE @] : f \in files}
    BY <1>2 DEF FilesBefore
  <2>4. ASSUME NEW x \in fs
        PROVE  \E f \in files : /\ x = [f EXCEPT !.status =
                                         IF @ = "password_required" THEN "failed" ELSE @]
                                /\ x.content = f.content /\ x.deleted = f.deleted
                                /\ x.status \in InitialStatuses
    <3>1. PICK f \in files : x = [f EXCEPT !.status = IF @ = "password_required" THEN "failed" ELSE @]
      BY <2>3
    <3>2. f \in StatementRow
      BY DEF HistoryInv, RowsInv
    <3>3. x.content = f.content /\ x.deleted = f.deleted
      BY <3>1, <3>2 DEF StatementRow
    <3>4. x.status \in InitialStatuses
      BY <3>1, <3>2 DEF StatementRow, InitialStatuses
    <3>. QED  BY <3>1, <3>3, <3>4
  <2>. HIDE DEF fs, is
  <2>5. ASSUME NEW x \in fs, NEW y \in fs, x # y, x.content = y.content
        PROVE  x.deleted + y.deleted > 0
    <3>1. PICK f \in files : /\ x = [f EXCEPT !.status =
                                      IF @ = "password_required" THEN "failed" ELSE @]
                             /\ x.content = f.content /\ x.deleted = f.deleted
      BY <2>4
    <3>2. PICK g \in files : /\ y = [g EXCEPT !.status =
                                      IF @ = "password_required" THEN "failed" ELSE @]
                             /\ y.content = g.content /\ y.deleted = g.deleted
      BY <2>4
    <3>3. f # g /\ f.content = g.content
      BY <2>5, <3>1, <3>2
    <3>4. f.deleted + g.deleted > 0
      BY <1>1, <1>2, <2>1, <3>3
    <3>. QED  BY <3>1, <3>2, <3>4
  <2>6. Fits(s, fs, is)
    BY <1>0, <1>1, <1>2, <2>1, <2>2, <2>4, <2>5, Asked
  <2>. QED  BY <2>6 DEF fs, is
<1>3. CASE version = 8
  <2>1. /\ KindsAt(7) = KindsAt(8) \ {"output_untraceable_figure"} /\ HashAt(7) = HashAt(8)
        /\ StatusesAt(7) = StatusesAt(8)
    BY DEF KindsAt, HashAt, StatusesAt, InitialKinds
  <2>2. is = incidents \ {"output_untraceable_figure"} /\ fs = files
    BY <1>3 DEF IncidentsBefore, FilesBefore
  <2>. HIDE DEF fs, is
  <2>3. Fits(s, fs, is)
    BY <1>0, <1>1, <1>3, <2>1, <2>2, Asked
  <2>. QED  BY <2>3 DEF fs, is
<1>4. CASE version = 1
  <2>1. is = {} /\ fs = {}
    BY <1>4 DEF IncidentsBefore, FilesBefore
  <2>. HIDE DEF fs, is
  <2>2. Fits(s, fs, is)
    BY <2>1 DEF Fits
  <2>. QED  BY <2>2 DEF fs, is
<1>5. CASE version \notin {1, 7, 8, 12}
  <2>1. is = incidents /\ fs = files
    BY <1>5 DEF IncidentsBefore, FilesBefore
  <2>2. /\ KindsAt(version - 1) = KindsAt(version) /\ HashAt(version - 1) = HashAt(version)
        /\ StatusesAt(version - 1) = StatusesAt(version)
    BY <1>0, <1>5 DEF KindsAt, HashAt, StatusesAt
  <2>. HIDE DEF fs, is
  <2>3. Fits(s, fs, is)
    BY <1>0, <1>1, <2>1, <2>2, Asked
  <2>. QED  BY <2>3 DEF fs, is
<1>. QED  BY <1>2, <1>3, <1>4, <1>5, Zenon

\* The rows a downgrade leaves are those it found, the locked ones failed.
LEMMA RowsBefore ==
  ASSUME HistoryInv, version > 1, files' = FilesBefore(version)
  PROVE  RowsInv' /\ (SameContent => SameContent')
<1>1. CASE version # 12
  <2>1. files' = files
    BY <1>1 DEF FilesBefore, HistoryInv, Versions, LatestVersion
  <2>. QED  BY <2>1 DEF HistoryInv, RowsInv, SameContent
<1>2. CASE version = 12
  <2>. DEFINE Fail(f) == [f EXCEPT !.status = IF @ = "password_required" THEN "failed" ELSE @]
  <2>1. files' = {Fail(f) : f \in files}
    BY <1>2 DEF FilesBefore
  <2>2. ASSUME NEW f \in files
        PROVE  /\ Fail(f) \in StatementRow
               /\ Fail(f).content = f.content /\ Fail(f).deleted = f.deleted
               /\ f.deleted > 0 => Fail(f) = f
               /\ f.deleted \in Nat
    <3>1. f \in StatementRow /\ (f.deleted > 0 => f.status = "processed")
      BY DEF HistoryInv, RowsInv
    <3>2. Fail(f) \in StatementRow /\ f.deleted \in Nat
      BY <3>1 DEF StatementRow, InitialStatuses
    <3>3. Fail(f).content = f.content /\ Fail(f).deleted = f.deleted
      BY <3>1 DEF StatementRow
    <3>4. f.deleted > 0 => Fail(f) = f
      BY <3>1 DEF StatementRow
    <3>. QED  BY <3>2, <3>3, <3>4
  <2>. HIDE DEF Fail
  <2>3. DeletedRows(files') = DeletedRows(files)
    <3>1. ASSUME NEW x \in DeletedRows(files') PROVE x \in DeletedRows(files)
      <4>1. PICK f \in files : x = Fail(f)
        BY <2>1 DEF DeletedRows
      <4>. QED  BY <2>2, <4>1 DEF DeletedRows
    <3>2. ASSUME NEW x \in DeletedRows(files) PROVE x \in DeletedRows(files')
      BY <2>1, <2>2 DEF DeletedRows
    <3>. QED  BY <3>1, <3>2
  <2>4. IsFiniteSet(files') /\ Cardinality(files') <= Cardinality(files)
    <3>. DEFINE F == [f \in files |-> Fail(f)]
    <3>1. F \in Surjection(files, files')
      BY <2>1 DEF Surjection
    <3>2. IsFiniteSet(files)
      BY DEF HistoryInv, RowsInv
    <3>. HIDE DEF F
    <3>. QED  BY <3>1, <3>2, FS_Surjection
  <2>5. IsFiniteSet(files') /\ Cardinality(files') <= MaxStatements
    BY <2>4, FS_CardinalityType, MigrationsAssumption DEF HistoryInv, RowsInv
  <2>6. ASSUME NEW x \in files'
        PROVE  /\ x \in StatementRow /\ x.deleted <= Cardinality(DeletedRows(files))
               /\ x.deleted > 0 => x.status = "processed"
    <3>1. PICK f \in files : x = Fail(f)
      BY <2>1
    <3>2. /\ f.deleted <= Cardinality(DeletedRows(files))
          /\ f.deleted > 0 => f.status = "processed"
      BY DEF HistoryInv, RowsInv
    <3>. QED  BY <2>2, <3>1, <3>2
  <2>7. RowsInv'
    BY <2>3, <2>5, <2>6 DEF RowsInv
  <2>8. ASSUME SameContent PROVE SameContent'
    <3>1. PICK f \in files, g \in files : f # g /\ f.content = g.content
      BY <2>8 DEF SameContent
    <3>2. f.deleted + g.deleted > 0
      <4>1. HashAt(12) = "live_rows"
        BY DEF HashAt
      <4>2. \A x, y \in files : (x # y /\ x.content = y.content) =>
                \/ HashAt(12) = "none"
                \/ HashAt(12) = "live_rows" /\ x.deleted + y.deleted > 0
        BY <1>2, Asked DEF HistoryInv
      <4>. QED  BY <3>1, <4>1, <4>2
    <3>3. Fail(f) # Fail(g)
      <4>1. CASE f.deleted > 0 /\ g.deleted > 0
        BY <2>2, <3>1, <4>1
      <4>2. CASE f.deleted # g.deleted
        BY <2>2, <4>2
      <4>3. f.deleted = g.deleted => f.deleted > 0 /\ g.deleted > 0
        BY <2>2, <3>2
      <4>. QED  BY <4>1, <4>2, <4>3
    <3>. QED  BY <2>1, <2>2, <3>1, <3>3 DEF SameContent
  <2>. QED  BY <2>7, <2>8
<1>. QED  BY <1>1, <1>2

\* A schema is remembered as its version left it.
LEMMA RememberKeeps ==
  ASSUME HistoryInv, Remember, NEW v \in DOMAIN remembered'
  PROVE  v \in Versions /\ IsAt(remembered'[v], v)
<1>1. remembered' = [u \in DOMAIN remembered \cup {version} |->
                        IF u = version THEN schema ELSE remembered[u]]
  BY DEF Remember
<1>2. DOMAIN remembered' = DOMAIN remembered \cup {version}
  BY <1>1
<1>. QED  BY <1>1, <1>2 DEF HistoryInv

\* An upgrade widens every constraint.
LEMMA UpgradeKeeps ==
  ASSUME HistoryInv, Upgrade
  PROVE  HistoryInv'
<1>1. version \in 0 .. 11 /\ version' = version + 1 /\ version' \in Versions /\ version \in Versions
  BY DEF HistoryInv, Upgrade, Versions, LatestVersion
<1>2. IsAt(schema', version')
  BY <1>1, UpgradeLeads DEF HistoryInv, Upgrade
<1>3. /\ incidents \subseteq KindsAt(version)
      /\ \A f \in files : f.status \in StatusesAt(version)
      /\ \A f, g \in files : (f # g /\ f.content = g.content) =>
                \/ HashAt(version) = "none"
                \/ HashAt(version) = "live_rows" /\ f.deleted + g.deleted > 0
  BY <1>1, Asked DEF HistoryInv
<1>4. /\ KindsAt(version) \subseteq KindsAt(version')
      /\ StatusesAt(version) \subseteq StatusesAt(version')
      /\ version = 0 => StatusesAt(version) = {}
      /\ version # 0 => HashAt(version) # "none"
      /\ HashAt(version) = "live_rows" => HashAt(version') = "live_rows"
  BY <1>1 DEF KindsAt, StatusesAt, HashAt, InitialKinds, InitialStatuses
<1>5. ASSUME NEW f \in files, NEW g \in files, f # g, f.content = g.content
      PROVE  HashAt(version') = "live_rows" /\ f.deleted + g.deleted > 0
  <2>1. version # 0
    BY <1>3, <1>4
  <2>. QED  BY <1>3, <1>4, <1>5, <2>1
<1>6. Fits(schema', files, incidents)
  BY <1>1, <1>2, <1>3, <1>4, <1>5, Asked
<1>7. UNCHANGED <<files, incidents, refused>> /\ Remember
  BY DEF Upgrade
<1>8. RowsInv' /\ RefusedInv'
  BY <1>1, <1>7 DEF HistoryInv, RowsInv, RefusedInv, SameContent
<1>. QED  BY <1>1, <1>2, <1>6, <1>7, <1>8, RememberKeeps DEF HistoryInv

\* A downgrade moves the rows first; the one that the rows stop is not taken.
LEMMA DowngradeKeeps ==
  ASSUME HistoryInv, Downgrade
  PROVE  HistoryInv'
<1>1. version \in 1 .. 12 /\ version' = version - 1 /\ version' \in Versions
  BY DEF HistoryInv, Downgrade, Versions, LatestVersion
<1>2. IsAt(schema', version')
  BY <1>1, DowngradeLeads DEF HistoryInv, Downgrade
<1>3. /\ files' = FilesBefore(version) /\ incidents' = IncidentsBefore(version)
      /\ Fits(schema', files', incidents')
      /\ Remember /\ refused' = refused
  BY DEF Downgrade
<1>4. RowsInv' /\ RefusedInv'
  <2>1. CASE version = 1
    <3>1. files' = {}
      BY <1>3, <2>1 DEF FilesBefore
    <3>2. IsFiniteSet({}) /\ Cardinality({}) = 0
      BY FS_EmptySet
    <3>3. refused = 0
      BY <2>1 DEF HistoryInv, RefusedInv
    <3>. QED  BY <1>3, <3>1, <3>2, <3>3, MigrationsAssumption DEF RowsInv, RefusedInv
  <2>2. CASE version # 1
    <3>1. RowsInv' /\ (SameContent => SameContent')
      BY <1>1, <1>3, <2>2, RowsBefore
    <3>2. ASSUME refused # 0 PROVE version' >= 7
      <4>1. refused = 7 /\ version >= 7 /\ SameContent
        BY <3>2 DEF HistoryInv, RefusedInv
      <4>2. version # 7
        <5>1. SUFFICES ASSUME version = 7 PROVE FALSE
          OBVIOUS
        <5>2. files' = files
          BY <1>3, <5>1 DEF FilesBefore
        <5>3. HashAt(6) = "every_row" /\ version' = 6
          BY <1>1, <5>1 DEF HashAt
        <5>4. \A f, g \in files : ~ (f # g /\ f.content = g.content)
          BY <1>1, <1>2, <1>3, <5>2, <5>3, Asked
        <5>. QED  BY <4>1, <5>4 DEF SameContent
      <4>. QED  BY <1>1, <4>1, <4>2
    <3>. QED  BY <1>3, <3>1, <3>2 DEF HistoryInv, RefusedInv
  <2>. QED  BY <2>1, <2>2
<1>. QED  BY <1>1, <1>2, <1>3, <1>4, RememberKeeps DEF HistoryInv

\* The downgrade the rows stop is that of 0007, over two rows of one content.
LEMMA RefusalKeeps ==
  ASSUME HistoryInv, DowngradeRefused
  PROVE  HistoryInv'
<1>. DEFINE s == Before(version, schema)
<1>1. /\ ~ Fits(s, FilesBefore(version), IncidentsBefore(version))
      /\ version > 0 /\ refused' = version
      /\ UNCHANGED <<version, schema, remembered, files, incidents>>
  BY DEF DowngradeRefused
<1>2. IsAt(s, version - 1)
  BY <1>1, DowngradeLeads DEF HistoryInv, Versions, LatestVersion
<1>. HIDE DEF s
<1>3. version = 7
  BY <1>1, <1>2, OthersFit
<1>4. SameContent
  <2>1. FilesBefore(7) = files /\ IncidentsBefore(7) = incidents
    BY DEF FilesBefore, IncidentsBefore
  <2>2. KindsAt(6) = KindsAt(7) /\ StatusesAt(6) = StatusesAt(7) /\ 6 \in Versions /\ 7 \in Versions
    BY DEF KindsAt, StatusesAt, Versions, LatestVersion
  <2>3. IsAt(s, 6) /\ ~ Fits(s, files, incidents)
    BY <1>1, <1>2, <1>3, <2>1
  <2>4. incidents \subseteq KindsAt(6) /\ \A f \in files : f.status \in StatusesAt(6)
    BY <1>3, <2>2, Asked DEF HistoryInv
  <2>. QED  BY <2>2, <2>3, <2>4, Asked DEF SameContent
<1>. QED  BY <1>1, <1>3, <1>4 DEF HistoryInv, RowsInv, RefusedInv, SameContent

\* The constraints of the head.
LEMMA AtHead ==
  ASSUME HistoryInv, version = LatestVersion, NEW fs, NEW is
  PROVE  Fits(schema, fs, is) <=>
           /\ is \subseteq InitialKinds \cup {"output_untraceable_figure"}
           /\ \A f \in fs : f.status \in InitialStatuses \cup {"password_required"}
           /\ \A f, g \in fs : (f # g /\ f.content = g.content) => f.deleted + g.deleted > 0
<1>1. HashAt(12) = "live_rows" /\ "live_rows" # "none" /\ 12 \in Versions
  BY DEF HashAt, Versions, LatestVersion
<1>2. /\ KindsAt(12) = InitialKinds \cup {"output_untraceable_figure"}
      /\ StatusesAt(12) = InitialStatuses \cup {"password_required"}
  BY DEF KindsAt, StatusesAt
<1>3. IsAt(schema, 12)
  BY DEF HistoryInv, LatestVersion
<1>. QED  BY <1>1, <1>2, <1>3, Asked

\* An upload adds a live row of a content that no live row has.
LEMMA UploadKeeps ==
  ASSUME HistoryInv, Upload
  PROVE  HistoryInv'
<1>1. /\ version = LatestVersion /\ Cardinality(files) < MaxStatements
      /\ UNCHANGED <<version, schema, remembered, incidents, refused>>
  BY DEF Upload
<1>2. PICK c \in Contents, st \in {"uploaded", "password_required"} :
         /\ \A f \in files : f.content = c => f.deleted > 0
         /\ files' = files \cup {[content |-> c, deleted |-> 0, status |-> st]}
  BY DEF Upload
<1>. DEFINE n == [content |-> c, deleted |-> 0, status |-> st]
<1>3. /\ n \in StatementRow /\ n.content = c /\ n.deleted = 0
      /\ n.status \in InitialStatuses \cup {"password_required"}
  BY DEF StatementRow, InitialStatuses
<1>4. files' = files \cup {n}
  BY <1>2
<1>. HIDE DEF n
<1>5. n \notin files /\ files \in SUBSET StatementRow /\ IsFiniteSet(files)
  BY <1>2, <1>3 DEF HistoryInv, RowsInv
<1>6. IsFiniteSet(files') /\ Cardinality(files') <= MaxStatements
  <2>1. IsFiniteSet(files') /\ Cardinality(files') = Cardinality(files) + 1
    BY <1>4, <1>5, FS_AddElement
  <2>2. Cardinality(files) \in Nat
    BY <1>5, FS_CardinalityType
  <2>. QED  BY <1>1, <2>1, <2>2, MigrationsAssumption
<1>7. DeletedRows(files') = DeletedRows(files)
  BY <1>3, <1>4 DEF DeletedRows
<1>8. ASSUME NEW x \in files'
      PROVE  /\ x \in StatementRow /\ x.deleted <= Cardinality(DeletedRows(files'))
             /\ x.deleted > 0 => x.status = "processed"
  <2>1. Cardinality(DeletedRows(files)) \in Nat
    BY DeletionsCounted DEF HistoryInv
  <2>. QED  BY <1>3, <1>4, <1>7, <2>1 DEF HistoryInv, RowsInv
<1>9. RowsInv'
  BY <1>6, <1>8 DEF RowsInv
<1>10. Fits(schema, files', incidents)
  <2>1. /\ incidents \subseteq InitialKinds \cup {"output_untraceable_figure"}
        /\ \A f, g \in files : (f # g /\ f.content = g.content) => f.deleted + g.deleted > 0
    BY <1>1, AtHead DEF HistoryInv
  <2>2. \A f \in files' : f.status \in InitialStatuses \cup {"password_required"}
    BY <1>8 DEF StatementRow
  <2>3. ASSUME NEW f \in files', NEW g \in files', f # g, f.content = g.content
        PROVE  f.deleted + g.deleted > 0
    <3>1. f.deleted \in Nat /\ g.deleted \in Nat
      BY <1>8 DEF StatementRow
    <3>. QED  BY <1>2, <1>3, <1>4, <2>1, <2>3, <3>1
  <2>. QED  BY <1>1, <2>1, <2>2, <2>3, AtHead
<1>11. RefusedInv'
  BY <1>1, <1>4 DEF HistoryInv, RefusedInv, SameContent
<1>. QED  BY <1>1, <1>9, <1>10, <1>11 DEF HistoryInv

\* A row deleted takes a number that no row has, so it stays a row of its own.
LEMMA DeletionKeeps ==
  ASSUME HistoryInv, DeleteFile
  PROVE  HistoryInv'
<1>1. /\ version = LatestVersion
      /\ UNCHANGED <<version, schema, remembered, incidents, refused>>
  BY DEF DeleteFile
<1>2. PICK d \in files :
         /\ d.deleted = 0
         /\ files' = (files \ {d}) \cup
                       {[d EXCEPT !.deleted = NextDeletion, !.status = "processed"]}
  BY DEF DeleteFile
<1>. DEFINE n == [d EXCEPT !.deleted = NextDeletion, !.status = "processed"]
            k == Cardinality(DeletedRows(files))
<1>3. /\ k \in Nat /\ NextDeletion = k + 1 /\ IsFiniteSet(DeletedRows(files))
      /\ RowsInv
  BY DeletionsCounted DEF HistoryInv
<1>4. d \in StatementRow /\ files \in SUBSET StatementRow /\ IsFiniteSet(files)
  BY DEF HistoryInv, RowsInv
<1>5. /\ n \in StatementRow /\ n.content = d.content /\ n.deleted = k + 1
      /\ n.status = "processed"
  <2>. DEFINE number == NextDeletion
  <2>1. number \in Nat /\ number = k + 1
    BY <1>3
  <2>2. n = [d EXCEPT !.deleted = number, !.status = "processed"]
    OBVIOUS
  <2>. HIDE DEF k, n, number
  <2>3. n.content = d.content /\ n.deleted = number /\ n.status = "processed"
    BY <1>4, <2>2 DEF StatementRow
  <2>4. n \in StatementRow
    BY <1>4, <2>1, <2>2 DEF StatementRow, InitialStatuses
  <2>. QED  BY <2>1, <2>3, <2>4
<1>6. files' = (files \ {d}) \cup {n}
  BY <1>2
<1>. HIDE DEF n, k
<1>7. \A f \in files : f.deleted <= k /\ f.deleted \in Nat
  BY <1>4 DEF HistoryInv, RowsInv, StatementRow, k
<1>8. n \notin files
  BY <1>3, <1>5, <1>7
<1>9. IsFiniteSet(files') /\ Cardinality(files') = Cardinality(files)
  <2>1. IsFiniteSet(files \ {d}) /\ Cardinality(files \ {d}) = Cardinality(files) - 1
    BY <1>2, <1>4, FS_RemoveElement
  <2>2. Cardinality(files') = Cardinality(files \ {d}) + 1 /\ IsFiniteSet(files')
    BY <1>6, <1>8, <2>1, FS_AddElement
  <2>3. Cardinality(files) \in Nat
    BY <1>4, FS_CardinalityType
  <2>. QED  BY <2>1, <2>2, <2>3
<1>10. Cardinality(DeletedRows(files')) = k + 1
  <2>1. DeletedRows(files') = DeletedRows(files) \cup {n}
    BY <1>2, <1>3, <1>5, <1>6 DEF DeletedRows
  <2>2. n \notin DeletedRows(files)
    BY <1>8 DEF DeletedRows
  <2>. QED  BY <1>3, <2>1, <2>2, FS_AddElement DEF k
<1>11. ASSUME NEW x \in files'
       PROVE  /\ x \in StatementRow /\ x.deleted <= Cardinality(DeletedRows(files'))
              /\ x.deleted > 0 => x.status = "processed"
  BY <1>3, <1>4, <1>5, <1>6, <1>7, <1>10 DEF RowsInv
<1>12. RowsInv'
  BY <1>3, <1>9, <1>11 DEF RowsInv
<1>13. Fits(schema, files', incidents)
  <2>1. /\ incidents \subseteq InitialKinds \cup {"output_untraceable_figure"}
        /\ \A f, g \in files : (f # g /\ f.content = g.content) => f.deleted + g.deleted > 0
    BY <1>1, AtHead DEF HistoryInv
  <2>2. \A f \in files' : f.status \in InitialStatuses \cup {"password_required"}
    BY <1>11 DEF StatementRow
  <2>3. ASSUME NEW f \in files', NEW g \in files', f # g, f.content = g.content
        PROVE  f.deleted + g.deleted > 0
    <3>1. f.deleted \in Nat /\ g.deleted \in Nat
      BY <1>11 DEF StatementRow
    <3>. QED  BY <1>3, <1>5, <1>6, <2>1, <2>3, <3>1
  <2>. QED  BY <1>1, <2>1, <2>2, <2>3, AtHead
<1>14. RefusedInv'
  <2>1. ASSUME SameContent PROVE SameContent'
    <3>1. PICK f \in files, g \in files : f # g /\ f.content = g.content
      BY <2>1 DEF SameContent
    <3>2. CASE f = d
      <4>1. n \in files' /\ g \in files' /\ n # g /\ n.content = g.content
        BY <1>5, <1>6, <1>8, <3>1, <3>2
      <4>. QED  BY <4>1 DEF SameContent
    <3>3. CASE g = d
      <4>1. n \in files' /\ f \in files' /\ n # f /\ n.content = f.content
        BY <1>5, <1>6, <1>8, <3>1, <3>3
      <4>. QED  BY <4>1 DEF SameContent
    <3>4. CASE f # d /\ g # d
      BY <1>6, <3>1, <3>4 DEF SameContent
    <3>. QED  BY <3>2, <3>3, <3>4
  <2>. QED  BY <1>1, <2>1 DEF HistoryInv, RefusedInv
<1>. QED  BY <1>1, <1>12, <1>13, <1>14 DEF HistoryInv

\* The kinds of incident the program records are those the head admits.
LEMMA IncidentKeeps ==
  ASSUME HistoryInv, RecordIncident
  PROVE  HistoryInv'
<1>1. /\ version = LatestVersion
      /\ UNCHANGED <<version, schema, remembered, files, refused>>
  BY DEF RecordIncident
<1>2. PICK k \in {"pii_in_payload", "output_untraceable_figure"} :
         incidents' = incidents \cup {k}
  BY DEF RecordIncident
<1>3. k \in InitialKinds \cup {"output_untraceable_figure"}
  BY <1>2 DEF InitialKinds
<1>4. Fits(schema, files, incidents')
  BY <1>1, <1>2, <1>3, AtHead DEF HistoryInv
<1>. QED  BY <1>1, <1>4 DEF HistoryInv, RowsInv, RefusedInv, SameContent

\* Every step keeps the invariant of the history.
LEMMA HistoryStep == HistoryInv /\ [MigrationsNext]_migrationVars => HistoryInv'
<1>. SUFFICES ASSUME HistoryInv, [MigrationsNext]_migrationVars PROVE HistoryInv'
  OBVIOUS
<1>1. CASE UNCHANGED migrationVars
  BY <1>1 DEF migrationVars, HistoryInv, RowsInv, RefusedInv, SameContent
<1>. QED  BY <1>1, UpgradeKeeps, DowngradeKeeps, RefusalKeeps, UploadKeeps,
             DeletionKeeps, IncidentKeeps DEF MigrationsNext

\* The invariant of the history holds in every behaviour.
LEMMA AlwaysHistory == MigrationsSpec => []HistoryInv
  BY HistoryStart, HistoryStep, PTL DEF MigrationsSpec

\* The types of the history, and every row within the constraints of the
\* schema it lives in.
THEOREM MigrationsTypeCorrect == MigrationsSpec => []MigrationsTypeOK
<1>1. HistoryInv => MigrationsTypeOK
  <2>. SUFFICES ASSUME HistoryInv PROVE MigrationsTypeOK
    OBVIOUS
  <2>1. version \in 0 .. LatestVersion /\ DOMAIN remembered \subseteq 0 .. LatestVersion
    BY DEF HistoryInv, Versions
  <2>2. schema.policies \subseteq Isolated /\ schema.forced \subseteq schema.policies
    <3>1. /\ schema.policies = PoliciesAt(version) /\ schema.forced = ForcedAt(version)
      BY DEF HistoryInv, IsAt
    <3>2. PoliciesAt(version) \subseteq Isolated /\ ForcedAt(version) \subseteq PoliciesAt(version)
      BY <2>1 DEF PoliciesAt, ForcedAt, Isolated, LatestVersion
    <3>. QED  BY <3>1, <3>2
  <2>3. ASSUME NEW f \in files PROVE f.content \in Contents /\ f.deleted \in 0 .. MaxStatements
    <3>1. /\ f \in StatementRow /\ f.deleted <= Cardinality(DeletedRows(files))
          /\ Cardinality(files) <= MaxStatements
      BY DEF HistoryInv, RowsInv
    <3>2. /\ Cardinality(DeletedRows(files)) \in Nat /\ Cardinality(files) \in Nat
          /\ Cardinality(DeletedRows(files)) <= Cardinality(files)
      BY DeletionsCounted DEF HistoryInv
    <3>. QED  BY <3>1, <3>2, MigrationsAssumption DEF StatementRow
  <2>4. refused \in 0 .. LatestVersion
    BY DEF HistoryInv, RefusedInv, LatestVersion
  <2>. QED  BY <2>1, <2>2, <2>3, <2>4 DEF MigrationsTypeOK, HistoryInv
<1>. QED  BY <1>1, AlwaysHistory, PTL

\* Whatever upgrades and downgrades came before, the schema is that of its
\* version: a downgrade takes back what its upgrade did and nothing else.
THEOREM SchemaIsItsVersions == MigrationsSpec => []SchemaFollowsVersion
<1>1. HistoryInv => SchemaFollowsVersion
  BY OneSchema DEF HistoryInv, SchemaFollowsVersion
<1>. QED  BY <1>1, AlwaysHistory, PTL

\* Every column that an INSERT leaves out has a mirrored default.
LEMMA OmittedAreMirrored ==
  Omitted \subseteq Columns(MirroredDefaults) \cup {<<"statements", "unlock_attempts">>}
<1>. DEFINE d == MirroredDefaults
<1>1. ASSUME NEW t \in DOMAIN d, NEW c \in d[t] PROVE <<t, c>> \in Columns(d)
  <2>. HIDE DEF d
  <2>1. <<t, c>> \in {<<t, x>> : x \in d[t]}
    OBVIOUS
  <2>2. {<<t, x>> : x \in d[t]} \in {{<<u, x>> : x \in d[u]} : u \in DOMAIN d}
    OBVIOUS
  <2>. QED  BY <2>1, <2>2 DEF Columns
<1>2. /\ {"users", "processing_jobs", "statements", "transactions", "user_category_rules",
          "anomalies", "subscriptions"} \subseteq DOMAIN MirroredDefaults
      /\ "failed_login_count" \in MirroredDefaults["users"]
      /\ {"attempt", "max_attempts"} \subseteq MirroredDefaults["processing_jobs"]
      /\ {"transaction_count", "duplicate_count"} \subseteq MirroredDefaults["statements"]
      /\ "is_verified" \in MirroredDefaults["transactions"]
      /\ {"times_applied", "confidence", "is_active", "priority"}
            \subseteq MirroredDefaults["user_category_rules"]
      /\ "dismissed" \in MirroredDefaults["anomalies"]
      /\ "dismissed" \in MirroredDefaults["subscriptions"]
  BY DEF MirroredDefaults
<1>3. {<<"users", "failed_login_count">>, <<"processing_jobs", "attempt">>,
       <<"processing_jobs", "max_attempts">>, <<"statements", "transaction_count">>,
       <<"statements", "duplicate_count">>, <<"transactions", "is_verified">>,
       <<"user_category_rules", "times_applied">>, <<"user_category_rules", "confidence">>,
       <<"user_category_rules", "is_active">>, <<"user_category_rules", "priority">>,
       <<"anomalies", "dismissed">>, <<"subscriptions", "dismissed">>}
         \subseteq Columns(MirroredDefaults)
  BY <1>1, <1>2
<1>. QED
  BY <1>3 DEF Omitted, UserInsert, GoogleUserInsert, JobInsert, StatementInsert,
              TransactionInsert, LearnedRuleInsert, RuleInsert, AnomalyInsert,
              SubscriptionInsert

\* At the head no write of the program fails for a missing value, whatever
\* migrations were run and taken back before.
THEOREM InsertsComplete == MigrationsSpec => []InsertsAreComplete
<1>1. HistoryInv => InsertsAreComplete
  <2>. SUFFICES ASSUME HistoryInv, version = LatestVersion PROVE Omitted \subseteq Filled(schema)
    BY DEF InsertsAreComplete
  <2>1. schema.mirrored = MirroredAt(12) /\ schema.unlockAttempts = UnlockAttemptsAt(12)
    BY DEF HistoryInv, IsAt, LatestVersion
  <2>2. MirroredAt(12) = Columns(MirroredDefaults) /\ UnlockAttemptsAt(12) = TRUE
    BY DEF MirroredAt, UnlockAttemptsAt
  <2>3. Filled(schema) = Columns(MirroredDefaults) \cup {<<"statements", "unlock_attempts">>}
    BY <2>1, <2>2 DEF Filled
  <2>. QED  BY <2>3, OmittedAreMirrored
<1>. QED  BY <1>1, AlwaysHistory, PTL

\* The rows written at the head stop no downgrade but that of 0007, and that
\* one only over two uploads of one content.
THEOREM ReuploadsAlone == MigrationsSpec => []OnlyReuploadsStop
<1>1. HistoryInv => OnlyReuploadsStop
  BY DEF HistoryInv, RefusedInv, SameContent, OnlyReuploadsStop
<1>. QED  BY <1>1, AlwaysHistory, PTL

-----------------------------------------------------------------------------
(* Cascades: what a DELETE takes with it *)

\* The table a column refers to.
Referred(column) ==
    CASE column = "tenant_id" -> "tenants"
      [] column \in {"user_id", "created_by", "uploaded_by", "changed_by",
                     "verified_by"} -> "users"
      [] column \in {"category_id", "original_category_id",
                     "predicted_category_id", "largest_category_id",
                     "fastest_growing_category_id"} -> "categories"
      [] column \in {"subcategory_id", "original_subcategory_id"} -> "subcategories"
      [] column \in {"transaction_id", "largest_transaction_id"} -> "transactions"
      [] column = "account_id" -> "accounts"
      [] column = "statement_id" -> "statements"
      [] column = "job_id" -> "processing_jobs"
      [] column = "merchant_id" -> "merchants"
      [] column = "transfer_group_id" -> "transfer_groups"

\* The tables that nobody refers to, and the DELETEs that reach further.
Leaves == {"job_events", "notifications", "audit_logs", "subscriptions",
           "budgets", "anomalies", "user_category_rules"}

Reaching == {EraseTenant, DeleteStatement, SweepDiscarded}

KeyColumns ==
    {"tenant_id", "user_id", "created_by", "uploaded_by", "changed_by",
     "verified_by", "category_id", "original_category_id",
     "predicted_category_id", "largest_category_id",
     "fastest_growing_category_id", "subcategory_id",
     "original_subcategory_id", "transaction_id", "largest_transaction_id",
     "account_id", "statement_id", "job_id", "merchant_id",
     "transfer_group_id"}

TenantTables ==
    {"accounts", "ingestion_sources", "privacy_counters", "transfer_groups",
     "users", "audit_logs", "budgets", "notifications", "refresh_tokens",
     "statements", "subscriptions", "user_category_rules", "processing_jobs",
     "statement_health", "statement_pages", "transactions",
     "ai_classifications", "anomalies", "insight_snapshots", "job_events",
     "privacy_incidents", "timeline_events", "transaction_audit"}

\* What the proofs need of a key.
KeyHolds(k) ==
    /\ k[2] \in KeyColumns /\ k[3] = Referred(k[2])
    /\ k[3] \notin Leaves
    /\ k[3] = "tenants" => k[4] = "owned"
    /\ k[1] \in TenantTables \cup Shared
    /\ k[2] \in {"original_category_id", "original_subcategory_id", "verified_by"}
         => k[1] = "transactions"

\* The tenant keys.
LEMMA OwnKeys == \A t \in TenantTables : <<t, "tenant_id", "tenants", "owned">> \in Keys
  BY DEF TenantTables, Keys, IdentityKeys, SettingKeys, DocumentKeys, LedgerKeys,
         DerivedKeys, OfTenant

\* Each key of the schema is as said.
LEMMA KeysHold == \A k \in Keys : KeyHolds(k)
<1>1. ASSUME NEW k \in IdentityKeys PROVE KeyHolds(k)
  <2>1. k[2] \in KeyColumns
    BY DEF IdentityKeys, OfTenant, KeyColumns
  <2>2. k[3] = Referred(k[2])
    BY DEF IdentityKeys, OfTenant, Referred
  <2>3. k[3] \notin Leaves
    BY DEF IdentityKeys, OfTenant, Leaves
  <2>4. k[3] = "tenants" => k[4] = "owned"
    BY DEF IdentityKeys, OfTenant
  <2>5. k[1] \in TenantTables \cup Shared
    BY DEF IdentityKeys, OfTenant, TenantTables, Shared
  <2>6. k[2] \in {"original_category_id", "original_subcategory_id", "verified_by"}
          => k[1] = "transactions"
    BY DEF IdentityKeys, OfTenant
  <2>. QED  BY <2>1, <2>2, <2>3, <2>4, <2>5, <2>6 DEF KeyHolds
<1>2. ASSUME NEW k \in SettingKeys PROVE KeyHolds(k)
  <2>1. k[2] \in KeyColumns
    BY DEF SettingKeys, OfTenant, KeyColumns
  <2>2. k[3] = Referred(k[2])
    BY DEF SettingKeys, OfTenant, Referred
  <2>3. k[3] \notin Leaves
    BY DEF SettingKeys, OfTenant, Leaves
  <2>4. k[3] = "tenants" => k[4] = "owned"
    BY DEF SettingKeys, OfTenant
  <2>5. k[1] \in TenantTables \cup Shared
    BY DEF SettingKeys, OfTenant, TenantTables, Shared
  <2>6. k[2] \in {"original_category_id", "original_subcategory_id", "verified_by"}
          => k[1] = "transactions"
    BY DEF SettingKeys, OfTenant
  <2>. QED  BY <2>1, <2>2, <2>3, <2>4, <2>5, <2>6 DEF KeyHolds
<1>3. ASSUME NEW k \in DocumentKeys PROVE KeyHolds(k)
  <2>1. k[2] \in KeyColumns
    BY DEF DocumentKeys, OfTenant, KeyColumns
  <2>2. k[3] = Referred(k[2])
    BY DEF DocumentKeys, OfTenant, Referred
  <2>3. k[3] \notin Leaves
    BY DEF DocumentKeys, OfTenant, Leaves
  <2>4. k[3] = "tenants" => k[4] = "owned"
    BY DEF DocumentKeys, OfTenant
  <2>5. k[1] \in TenantTables \cup Shared
    BY DEF DocumentKeys, OfTenant, TenantTables, Shared
  <2>6. k[2] \in {"original_category_id", "original_subcategory_id", "verified_by"}
          => k[1] = "transactions"
    BY DEF DocumentKeys, OfTenant
  <2>. QED  BY <2>1, <2>2, <2>3, <2>4, <2>5, <2>6 DEF KeyHolds
<1>4. ASSUME NEW k \in LedgerKeys PROVE KeyHolds(k)
  <2>1. k[2] \in KeyColumns
    BY DEF LedgerKeys, OfTenant, KeyColumns
  <2>2. k[3] = Referred(k[2])
    BY DEF LedgerKeys, OfTenant, Referred
  <2>3. k[3] \notin Leaves
    BY DEF LedgerKeys, OfTenant, Leaves
  <2>4. k[3] = "tenants" => k[4] = "owned"
    BY DEF LedgerKeys, OfTenant
  <2>5. k[1] \in TenantTables \cup Shared
    BY DEF LedgerKeys, OfTenant, TenantTables, Shared
  <2>6. k[2] \in {"original_category_id", "original_subcategory_id", "verified_by"}
          => k[1] = "transactions"
    BY DEF LedgerKeys, OfTenant
  <2>. QED  BY <2>1, <2>2, <2>3, <2>4, <2>5, <2>6 DEF KeyHolds
<1>5. ASSUME NEW k \in DerivedKeys PROVE KeyHolds(k)
  <2>1. k[2] \in KeyColumns
    BY DEF DerivedKeys, OfTenant, KeyColumns
  <2>2. k[3] = Referred(k[2])
    BY DEF DerivedKeys, OfTenant, Referred
  <2>3. k[3] \notin Leaves
    BY DEF DerivedKeys, OfTenant, Leaves
  <2>4. k[3] = "tenants" => k[4] = "owned"
    BY DEF DerivedKeys, OfTenant
  <2>5. k[1] \in TenantTables \cup Shared
    BY DEF DerivedKeys, OfTenant, TenantTables, Shared
  <2>6. k[2] \in {"original_category_id", "original_subcategory_id", "verified_by"}
          => k[1] = "transactions"
    BY DEF DerivedKeys, OfTenant
  <2>. QED  BY <2>1, <2>2, <2>3, <2>4, <2>5, <2>6 DEF KeyHolds
<1>. QED  BY <1>1, <1>2, <1>3, <1>4, <1>5 DEF Keys

\* Every table but the tenants and the shared ones has an owned tenant key.
LEMMA TenantKeys ==
  \A t \in Tables : t \notin Shared /\ t # "tenants"
                      => <<t, "tenant_id", "tenants", "owned">> \in Keys
<1>1. \A k \in Keys : k[3] \in Shared \cup {"tenants", "users", "accounts", "statements",
                               "transactions", "processing_jobs", "transfer_groups"}
  <2>1. ASSUME NEW k \in Keys
        PROVE  k[3] \in Shared \cup {"tenants", "users", "accounts", "statements",
                               "transactions", "processing_jobs", "transfer_groups"}
    <3>1. k[3] = Referred(k[2]) /\ k[2] \in KeyColumns
      BY KeysHold DEF KeyHolds
    <3>. QED  BY <3>1 DEF Referred, KeyColumns, Shared
  <2>. QED  BY <2>1
<1>2. \A k \in Keys : k[1] \in TenantTables \cup Shared
  BY KeysHold DEF KeyHolds
<1>3. \A t \in Tables : t \in TenantTables \cup Shared \cup {"tenants"}
  BY <1>1, <1>2 DEF Tables, TenantTables
<1>. QED  BY <1>3, OwnKeys

\* A row that refers to another: by a key that is never null, or by one set.
Refers(k) == k[1] \in alive /\ (k[4] = "owned" \/ <<k[1], k[2]>> \in refs)

Waiting == {queue[n] : n \in DOMAIN queue}

\* Whatever a row refers to is there, or is deleted and its turn is to come.
\* A set reference is one of a row that is there.
Closed ==
    /\ \A k \in Keys : Refers(k) => k[3] \in alive \cup Waiting
    /\ \A k \in Keys : <<k[1], k[2]>> \in refs => k[1] \in alive

WholeBefore ==
    /\ before.alive \subseteq population
    /\ \A k \in Keys :
         (k[1] \in before.alive /\ (k[4] = "owned" \/ <<k[1], k[2]>> \in before.refs))
            => k[3] \in before.alive
    /\ \A k \in Keys : <<k[1], k[2]>> \in before.refs => k[1] \in before.alive

\* While a tenant is erased the keys to the tenant go first; then no row of
\* the tenant is left.
ErasureInv ==
    running = EraseTenant =>
        \/ queue # <<>> /\ Head(queue) = "tenants"
        \/ \A t \in alive : t \in Shared \cup {"tenants"}

\* The last erasure was not refused and left nothing of its tenant.
ErasedInv ==
    last.delete = EraseTenant /\ running = Idle =>
        /\ ~ last.refused
        /\ "tenants" \notin alive => alive \subseteq Shared

\* A DELETE that is not to reach the ledger deletes rows nobody refers to.
LeavesInv ==
    /\ running \notin Reaching => Waiting \subseteq Leaves
    /\ running = SweepDiscarded => discarded

CascadeInv ==
    /\ population \subseteq Tables /\ alive \subseteq population
    /\ running \in Deletes \cup {Idle}
    /\ queue \in Seq(Tables)
    /\ running = Idle => queue = <<>>
    /\ alive \subseteq before.alive \/ running = Idle
    /\ Closed
    /\ WholeBefore
    /\ ErasureInv
    /\ ErasedInv
    /\ LeavesInv

\* At the start there is no row.
LEMMA CascadeBegins == CascadeInit => CascadeInv
<1>. SUFFICES ASSUME CascadeInit PROVE CascadeInv
  OBVIOUS
<1>1. /\ population \in Populations /\ alive = {} /\ refs = {} /\ queue = <<>>
      /\ running = Idle /\ before.alive = {} /\ before.refs = {} /\ last.delete = Idle
  BY DEF CascadeInit, Settled
<1>2. population \subseteq Tables
  BY <1>1, CascadeAssumption
<1>3. Idle \notin {EraseTenant, SweepDiscarded}
  BY DEF Idle, EraseTenant, SweepDiscarded
<1>4. Closed /\ WholeBefore /\ ErasureInv /\ ErasedInv /\ LeavesInv
  BY <1>1, <1>3 DEF Closed, WholeBefore, ErasureInv, ErasedInv, LeavesInv, Refers, Waiting
<1>5. queue \in Seq(Tables)
  BY <1>1
<1>. QED  BY <1>1, <1>2, <1>4, <1>5 DEF CascadeInv

\* A row that joins the queue waits behind the others.
LEMMA QueueGrows ==
  ASSUME queue \in Seq(Tables), NEW t \in Tables, queue' = Append(queue, t)
  PROVE  /\ queue' \in Seq(Tables) /\ queue' # <<>>
         /\ Waiting' = Waiting \cup {t}
         /\ queue # <<>> => Head(queue') = Head(queue)
<1>1. /\ queue' \in Seq(Tables) /\ Len(queue') = Len(queue) + 1
      /\ \A n \in 1 .. Len(queue) : queue'[n] = queue[n]
      /\ queue'[Len(queue) + 1] = t
  OBVIOUS
<1>2. DOMAIN queue' = DOMAIN queue \cup {Len(queue) + 1} /\ DOMAIN queue = 1 .. Len(queue)
  BY <1>1
<1>3. Waiting' = Waiting \cup {t}
  BY <1>1, <1>2 DEF Waiting
<1>4. queue # <<>> => Head(queue') = Head(queue)
  BY <1>1
<1>. QED  BY <1>1, <1>3, <1>4

\* The row that leaves it is the first.
LEMMA QueueShrinks ==
  ASSUME queue \in Seq(Tables), queue # <<>>, queue' = Tail(queue)
  PROVE  /\ queue' \in Seq(Tables)
         /\ Waiting \subseteq Waiting' \cup {Head(queue)} /\ Waiting' \subseteq Waiting
         /\ Head(queue) \in Waiting
<1>1. /\ queue' \in Seq(Tables) /\ Len(queue') = Len(queue) - 1 /\ Len(queue) \in Nat \ {0}
      /\ \A n \in 1 .. Len(queue') : queue'[n] = queue[n + 1]
      /\ Head(queue) = queue[1]
      /\ DOMAIN queue = 1 .. Len(queue) /\ DOMAIN queue' = 1 .. Len(queue')
  OBVIOUS
<1>2. ASSUME NEW n \in DOMAIN queue PROVE queue[n] \in Waiting' \cup {Head(queue)}
  <2>1. CASE n = 1
    BY <1>1, <2>1
  <2>2. CASE n # 1
    <3>1. n - 1 \in DOMAIN queue' /\ queue'[n - 1] = queue[n]
      BY <1>1, <2>2
    <3>. QED  BY <3>1 DEF Waiting
  <2>. QED  BY <2>1, <2>2
<1>3. ASSUME NEW n \in DOMAIN queue' PROVE queue'[n] \in Waiting
  <2>1. n + 1 \in DOMAIN queue /\ queue'[n] = queue[n + 1]
    BY <1>1
  <2>. QED  BY <2>1 DEF Waiting
<1>4. Head(queue) \in Waiting
  BY <1>1 DEF Waiting
<1>. QED  BY <1>1, <1>2, <1>3, <1>4 DEF Waiting

\* The DELETEs told apart.
LEMMA DeletesDiffer ==
  /\ Idle \notin Deletes
  /\ EraseTenant # DeleteStatement /\ EraseTenant # SweepDiscarded
  /\ DeleteStatement # SweepDiscarded
  /\ \A d \in Deletes : d \notin Reaching => d[2] \in Leaves
  /\ EraseTenant[3] = TRUE /\ EraseTenant[2] = "tenants"
<1>1. Idle \notin Deletes
  BY DEF Idle, Deletes, EraseTenant, SweepEvents, SweepRead, SweepAudit, SweepDiscarded,
         DeleteStatement, Redetect, RemoveBudget, Rescan, DeleteRule
<1>2. /\ EraseTenant # DeleteStatement /\ EraseTenant # SweepDiscarded
      /\ DeleteStatement # SweepDiscarded
  BY DEF EraseTenant, SweepDiscarded, DeleteStatement
<1>3. ASSUME NEW d \in Deletes, d \notin Reaching PROVE d[2] \in Leaves
  <2>1. d \in {SweepEvents, SweepRead, SweepAudit, Redetect, RemoveBudget, Rescan, DeleteRule}
    BY <1>3 DEF Deletes, Reaching
  <2>2. /\ SweepEvents[2] = "job_events" /\ SweepRead[2] = "notifications"
        /\ SweepAudit[2] = "audit_logs" /\ Redetect[2] = "subscriptions"
        /\ RemoveBudget[2] = "budgets" /\ Rescan[2] = "anomalies"
        /\ DeleteRule[2] = "user_category_rules"
    BY DEF SweepEvents, SweepRead, SweepAudit, Redetect, RemoveBudget, Rescan, DeleteRule
  <2>. QED  BY <2>1, <2>2 DEF Leaves
<1>4. EraseTenant[3] = TRUE /\ EraseTenant[2] = "tenants"
  BY DEF EraseTenant
<1>. QED  BY <1>1, <1>2, <1>3, <1>4

\* A table in the queue is one of the schema.
LEMMA KeyTables == \A k \in Keys : k[1] \in Tables /\ k[3] \in Tables
  BY DEF Tables

\* A row inserted refers to rows that are there.
LEMMA InsertKeeps ==
  ASSUME CascadeInv, InsertRow
  PROVE  CascadeInv'
<1>1. /\ running = Idle /\ queue = <<>> /\ last'.delete = Idle
      /\ UNCHANGED <<population, before, queue, running>>
  BY DEF CascadeInv, InsertRow
<1>2. PICK t \in population \ alive :
         /\ Required(t) \subseteq alive
         /\ \E set \in SUBSET Optional(t) : refs' = refs \cup set
         /\ alive' = alive \cup {t}
  BY DEF InsertRow
<1>3. PICK set \in SUBSET Optional(t) : refs' = refs \cup set
  BY <1>2
<1>4. Waiting = {} /\ Waiting' = {}
  BY <1>1 DEF Waiting
<1>5. ASSUME NEW k \in Keys, <<k[1], k[2]>> \in set PROVE k[1] = t /\ k[3] \in alive
  <2>1. PICK x \in Keys : x[1] = t /\ x[3] \in alive /\ <<k[1], k[2]>> = <<x[1], x[2]>>
    BY <1>3, <1>5 DEF Optional
  <2>2. k[3] = Referred(k[2]) /\ x[3] = Referred(x[2])
    BY KeysHold DEF KeyHolds
  <2>. QED  BY <2>1, <2>2
<1>6. ASSUME NEW k \in Keys, Refers(k)' PROVE k[3] \in alive'
  <2>1. k[1] \in alive \cup {t} /\ (k[4] = "owned" \/ <<k[1], k[2]>> \in refs \cup set)
    BY <1>2, <1>3, <1>6 DEF Refers
  <2>2. CASE <<k[1], k[2]>> \in set
    BY <1>2, <1>5, <2>2
  <2>3. CASE <<k[1], k[2]>> \in refs
    BY <1>2, <1>4, <2>3 DEF CascadeInv, Closed, Refers
  <2>4. CASE k[4] = "owned" /\ k[1] = t
    BY <1>2, <2>4 DEF Required
  <2>5. CASE k[4] = "owned" /\ k[1] \in alive
    BY <1>2, <1>4, <2>5 DEF CascadeInv, Closed, Refers
  <2>. QED  BY <2>1, <2>2, <2>3, <2>4, <2>5
<1>7. ASSUME NEW k \in Keys, <<k[1], k[2]>> \in refs' PROVE k[1] \in alive'
  BY <1>2, <1>3, <1>5, <1>7 DEF CascadeInv, Closed
<1>8. Closed'
  BY <1>4, <1>6, <1>7 DEF Closed
<1>9. WholeBefore' /\ ErasureInv' /\ LeavesInv' /\ ErasedInv'
  <2>1. Idle # EraseTenant /\ Idle # SweepDiscarded
    BY DEF Idle, EraseTenant, SweepDiscarded
  <2>2. WholeBefore'
    BY <1>1 DEF CascadeInv, WholeBefore
  <2>3. ErasureInv' /\ LeavesInv' /\ ErasedInv'
    BY <1>1, <1>4, <2>1 DEF ErasureInv, LeavesInv, ErasedInv
  <2>. QED  BY <2>2, <2>3
<1>. QED  BY <1>1, <1>2, <1>8, <1>9 DEF CascadeInv

\* A DELETE begins: the row it finds is the first of the queue.
LEMMA DeleteKeeps ==
  ASSUME CascadeInv, Delete
  PROVE  CascadeInv'
<1>1. /\ running = Idle /\ queue = <<>>
      /\ before' = [alive |-> alive, refs |-> refs]
      /\ UNCHANGED <<population, discarded, last>>
  BY DEF CascadeInv, Delete
<1>2. PICK d \in Deletes : /\ Matches(d) /\ running' = d /\ alive' = alive \ {d[2]}
                           /\ refs' = Without(d[2]) /\ queue' = <<d[2]>>
  BY DEF Delete
<1>. DEFINE t == d[2]
<1>3. t \in alive /\ t \in Tables /\ (d = SweepDiscarded => discarded)
  BY <1>2 DEF Matches, CascadeInv
<1>4. alive' = alive \ {t} /\ refs' = {r \in refs : r[1] # t} /\ queue' = <<t>>
  BY <1>2 DEF Without
<1>5. d # Idle
  BY DeletesDiffer
<1>6. d = EraseTenant => t = "tenants"
  BY DeletesDiffer
<1>7. d \notin Reaching => t \in Leaves
  BY DeletesDiffer
<1>. HIDE DEF t
<1>8. queue' \in Seq(Tables) /\ queue' # <<>> /\ Head(queue') = t /\ Waiting' = {t}
  BY <1>3, <1>4 DEF Waiting
<1>9. Waiting = {}
  BY <1>1 DEF Waiting
<1>10. Closed'
  <2>1. ASSUME NEW k \in Keys, Refers(k)' PROVE k[3] \in alive' \cup Waiting'
    <3>1. Refers(k)
      BY <1>4, <2>1 DEF Refers
    <3>. QED  BY <1>4, <1>8, <1>9, <3>1 DEF CascadeInv, Closed
  <2>2. ASSUME NEW k \in Keys, <<k[1], k[2]>> \in refs' PROVE k[1] \in alive'
    BY <1>4, <2>2 DEF CascadeInv, Closed
  <2>. QED  BY <2>1, <2>2 DEF Closed
<1>11. WholeBefore'
  <2>1. before'.alive = alive /\ before'.refs = refs
    BY <1>1
  <2>2. \A k \in Keys : Refers(k) => k[3] \in alive
    BY <1>9 DEF CascadeInv, Closed
  <2>. QED  BY <1>1, <2>1, <2>2 DEF CascadeInv, Closed, WholeBefore, Refers
<1>12. ErasureInv' /\ ErasedInv' /\ LeavesInv'
  BY <1>1, <1>2, <1>3, <1>5, <1>6, <1>7, <1>8 DEF ErasureInv, ErasedInv, LeavesInv
<1>13. alive' \subseteq before'.alive
  BY <1>1, <1>4
<1>. QED  BY <1>1, <1>2, <1>4, <1>5, <1>8, <1>10, <1>11, <1>12, <1>13 DEF CascadeInv

\* A cascade takes a row and puts it last; while the tenant is first its own
\* keys are all that is pending.
LEMMA CascadeKeeps ==
  ASSUME CascadeInv, CascadeRow
  PROVE  CascadeInv'
<1>1. /\ queue # <<>> /\ running # Idle
      /\ UNCHANGED <<population, discarded, before, running, last>>
  BY DEF CascadeInv, CascadeRow
<1>2. PICK k \in Pending(Head(queue)) :
         /\ alive' = alive \ {k[1]} /\ refs' = Without(k[1]) /\ queue' = Queued(k[1])
  BY DEF CascadeRow
<1>. DEFINE t == k[1]
<1>3. k \in Keys /\ k[3] = Head(queue) /\ t \in Tables
  BY <1>2, KeyTables DEF Pending
<1>4. alive' = alive \ {t} /\ refs' = {r \in refs : r[1] # t} /\ queue' = Append(queue, t)
  BY <1>2 DEF Without, Queued
<1>. HIDE DEF t
<1>5. /\ queue' \in Seq(Tables) /\ queue' # <<>> /\ Head(queue') = Head(queue)
      /\ Waiting' = Waiting \cup {t}
  BY <1>1, <1>3, <1>4, QueueGrows DEF CascadeInv
<1>6. Closed'
  <2>1. ASSUME NEW j \in Keys, Refers(j)' PROVE j[3] \in alive' \cup Waiting'
    <3>1. Refers(j)
      BY <1>4, <2>1 DEF Refers
    <3>. QED  BY <1>4, <1>5, <3>1 DEF CascadeInv, Closed
  <2>2. ASSUME NEW j \in Keys, <<j[1], j[2]>> \in refs' PROVE j[1] \in alive'
    BY <1>4, <2>2 DEF CascadeInv, Closed
  <2>. QED  BY <2>1, <2>2 DEF Closed
<1>7. WholeBefore'
  BY <1>1 DEF CascadeInv, WholeBefore
<1>8. ErasureInv' /\ ErasedInv'
  BY <1>1, <1>4, <1>5 DEF CascadeInv, ErasureInv, ErasedInv
<1>9. LeavesInv'
  <2>1. Head(queue) \in Waiting
    <3>1. 1 \in DOMAIN queue /\ Head(queue) = queue[1]
      BY <1>1 DEF CascadeInv
    <3>. QED  BY <3>1 DEF Waiting
  <2>2. k[3] \notin Leaves
    BY <1>3, KeysHold DEF KeyHolds
  <2>3. running \in Reaching
    BY <1>3, <2>1, <2>2 DEF CascadeInv, LeavesInv
  <2>. QED  BY <1>1, <2>3 DEF CascadeInv, LeavesInv
<1>. QED  BY <1>1, <1>4, <1>5, <1>6, <1>7, <1>8, <1>9 DEF CascadeInv

\* A reference emptied is none.
LEMMA ForgottenKeeps ==
  ASSUME CascadeInv, ForgetRow
  PROVE  CascadeInv'
<1>1. UNCHANGED <<population, alive, discarded, before, queue, running, last>>
  BY DEF ForgetRow
<1>2. PICK k : refs' = refs \ {<<k[1], k[2]>>}
  BY DEF ForgetRow
<1>3. Closed'
  BY <1>1, <1>2 DEF CascadeInv, Closed, Refers, Waiting
<1>4. WholeBefore' /\ ErasureInv' /\ ErasedInv' /\ LeavesInv'
  BY <1>1 DEF CascadeInv, WholeBefore, ErasureInv, ErasedInv, LeavesInv, Waiting
<1>. QED  BY <1>1, <1>3, <1>4 DEF CascadeInv

\* A deleted row leaves the queue when nothing refers to it any more. When it
\* is the tenant, no row has a tenant key any more.
LEMMA NextKeeps ==
  ASSUME CascadeInv, NextRow
  PROVE  CascadeInv'
<1>1. /\ queue # <<>> /\ Pending(Head(queue)) = {} /\ queue' = Tail(queue) /\ running # Idle
      /\ UNCHANGED <<population, alive, refs, discarded, before, running, last>>
  BY DEF CascadeInv, NextRow
<1>2. /\ queue' \in Seq(Tables) /\ Waiting \subseteq Waiting' \cup {Head(queue)}
      /\ Waiting' \subseteq Waiting
  BY <1>1, QueueShrinks DEF CascadeInv
<1>3. \A k \in Keys : Refers(k) => k[3] # Head(queue)
  BY <1>1 DEF Pending, Refers
<1>4. Closed'
  BY <1>1, <1>2, <1>3 DEF CascadeInv, Closed, Refers
<1>5. ErasureInv'
  <2>1. SUFFICES ASSUME running = EraseTenant PROVE \A t \in alive : t \in Shared \cup {"tenants"}
    BY <1>1 DEF ErasureInv
  <2>2. CASE Head(queue) = "tenants"
    <3>1. ASSUME NEW t \in alive, t \notin Shared, t # "tenants" PROVE FALSE
      <4>1. t \in Tables
        BY DEF CascadeInv
      <4>2. <<t, "tenant_id", "tenants", "owned">> \in Keys
        BY <3>1, <4>1, TenantKeys
      <4>3. Refers(<<t, "tenant_id", "tenants", "owned">>)
        BY DEF Refers
      <4>. QED  BY <1>3, <2>2, <4>2, <4>3
    <3>. QED  BY <3>1
  <2>3. CASE Head(queue) # "tenants"
    BY <2>1, <2>3 DEF CascadeInv, ErasureInv
  <2>. QED  BY <2>2, <2>3
<1>6. WholeBefore' /\ ErasedInv' /\ LeavesInv'
  BY <1>1, <1>2 DEF CascadeInv, WholeBefore, ErasedInv, LeavesInv
<1>. QED  BY <1>1, <1>2, <1>4, <1>5, <1>6 DEF CascadeInv

\* A refusal restores what was there; an erasure meets none: while the tenant
\* is first only its own keys are pending, and afterwards no row is left that
\* a trigger guards.
LEMMA RefusedKeeps ==
  ASSUME CascadeInv, Refused
  PROVE  CascadeInv' /\ running # EraseTenant
<1>1. /\ queue # <<>> /\ running # Idle /\ alive' = before.alive /\ refs' = before.refs
      /\ queue' = <<>> /\ running' = Idle /\ last'.delete = running
      /\ UNCHANGED <<population, discarded>>
  BY DEF CascadeInv, Refused
<1>2. before'.alive = {} /\ before'.refs = {}
  BY DEF Refused, Settled
<1>3. PICK k \in Pending(Head(queue)) :
         \/ k[4] # "noted" /\ Refuses(k[1], running[3])
         \/ k[4] = "noted" /\ k \in Fixed
  BY DEF Refused
<1>4. running # EraseTenant
  <2>1. SUFFICES ASSUME running = EraseTenant PROVE FALSE
    OBVIOUS
  <2>2. ~ Refuses(k[1], running[3])
    BY <2>1, DeletesDiffer DEF Refuses
  <2>3. k[4] = "noted" /\ k \in Fixed /\ k \in Keys /\ k[3] = Head(queue) /\ k[1] \in alive
    BY <1>3, <2>2 DEF Pending
  <2>4. k[3] # "tenants"
    <3>1. k[3] = "tenants" => k[4] = "owned"
      BY <2>3, KeysHold DEF KeyHolds
    <3>. QED  BY <2>3, <3>1
  <2>5. k[1] \in Shared \cup {"tenants"}
    BY <2>1, <2>3, <2>4 DEF CascadeInv, ErasureInv
  <2>6. k[1] \in Audit \cup {"transactions"}
    BY <2>3, KeysHold DEF Fixed, KeyHolds
  <2>7. k[1] \notin Shared /\ k[1] # "tenants"
    BY <2>6 DEF Shared, Audit
  <2>. QED  BY <2>5, <2>7
<1>5. Waiting' = {}
  BY <1>1 DEF Waiting
<1>6. Closed'
  BY <1>1, <1>5 DEF CascadeInv, WholeBefore, Closed, Refers
<1>7. WholeBefore'
  BY <1>2 DEF WholeBefore
<1>8. ErasureInv' /\ ErasedInv' /\ LeavesInv'
  <2>1. Idle # EraseTenant /\ Idle # SweepDiscarded
    BY DEF Idle, EraseTenant, SweepDiscarded
  <2>. QED  BY <1>1, <1>4, <1>5, <2>1 DEF ErasureInv, ErasedInv, LeavesInv
<1>9. queue' \in Seq(Tables) /\ alive' \subseteq population'
  BY <1>1 DEF CascadeInv, WholeBefore
<1>. QED  BY <1>1, <1>4, <1>6, <1>7, <1>8, <1>9 DEF CascadeInv

\* Between statements what a row refers to is there; so the rows left without
\* their tenant are those of no tenant.
LEMMA NoTenantNoRows ==
  ASSUME CascadeInv, queue = <<>>, "tenants" \notin alive
  PROVE  alive \subseteq Shared
<1>1. SUFFICES ASSUME NEW t \in alive, t \notin Shared PROVE FALSE
  OBVIOUS
<1>2. t \in Tables /\ t # "tenants"
  BY DEF CascadeInv
<1>3. <<t, "tenant_id", "tenants", "owned">> \in Keys
  BY <1>1, <1>2, TenantKeys
<1>4. Refers(<<t, "tenant_id", "tenants", "owned">>)
  BY DEF Refers
<1>5. Waiting = {}
  BY DEF Waiting
<1>. QED  BY <1>3, <1>4, <1>5 DEF CascadeInv, Closed

\* A statement that is done leaves no reference open.
LEMMA DoneKeeps ==
  ASSUME CascadeInv, Done
  PROVE  CascadeInv'
<1>1. /\ queue = <<>> /\ running # Idle /\ running' = Idle
      /\ last'.delete = running /\ last'.refused = FALSE
      /\ UNCHANGED <<population, alive, refs, queue>>
  BY DEF Done
<1>2. before'.alive = {} /\ before'.refs = {}
  BY DEF Done, Settled
<1>3. Waiting' = {} /\ Waiting = {}
  BY <1>1 DEF Waiting
<1>4. Closed'
  BY <1>1, <1>3 DEF CascadeInv, Closed, Refers
<1>5. WholeBefore'
  BY <1>2 DEF WholeBefore
<1>6. "tenants" \notin alive => alive \subseteq Shared
  BY <1>1, NoTenantNoRows
<1>7. ErasureInv' /\ ErasedInv' /\ LeavesInv'
  <2>1. Idle # EraseTenant /\ Idle # SweepDiscarded
    BY DEF Idle, EraseTenant, SweepDiscarded
  <2>. QED  BY <1>1, <1>3, <1>6, <2>1 DEF ErasureInv, ErasedInv, LeavesInv
<1>. QED  BY <1>1, <1>4, <1>5, <1>7 DEF CascadeInv

\* A statement without transactions is marked deleted; no row goes.
LEMMA DiscardKeeps ==
  ASSUME CascadeInv, DiscardEmpty
  PROVE  CascadeInv'
<1>1. /\ running = Idle
      /\ UNCHANGED <<population, alive, refs, before, queue, running, last>>
  BY DEF DiscardEmpty
<1>2. Idle # SweepDiscarded
  BY DEF Idle, SweepDiscarded
<1>. QED  BY <1>1, <1>2 DEF CascadeInv, Closed, Refers, Waiting, WholeBefore, ErasureInv,
                            ErasedInv, LeavesInv

\* Every step keeps the invariant of the deletions.
LEMMA CascadeStep == CascadeInv /\ [CascadeNext]_cascadeVars => CascadeInv'
<1>. SUFFICES ASSUME CascadeInv, [CascadeNext]_cascadeVars PROVE CascadeInv'
  OBVIOUS
<1>1. CASE UNCHANGED cascadeVars
  BY <1>1 DEF cascadeVars, CascadeInv, Closed, Refers, Waiting, WholeBefore, ErasureInv,
              ErasedInv, LeavesInv
<1>. QED  BY <1>1, InsertKeeps, DeleteKeeps, DiscardKeeps, CascadeKeeps, ForgottenKeeps,
             NextKeeps, RefusedKeeps, DoneKeeps DEF CascadeNext

\* The invariant of the deletions holds in every behaviour.
LEMMA AlwaysCascade == CascadeSpec => []CascadeInv
  BY CascadeBegins, CascadeStep, PTL DEF CascadeSpec

\* Between statements no reference dangles, whatever a cascade took.
THEOREM CascadeTypeCorrect == CascadeSpec => []CascadeTypeOK
<1>1. CascadeInv => CascadeTypeOK
  <2>. SUFFICES ASSUME CascadeInv PROVE CascadeTypeOK
    OBVIOUS
  <2>1. ASSUME running = Idle
        PROVE  /\ queue = <<>>
               /\ \A t \in alive : Required(t) \subseteq alive
               /\ \A k \in Keys : <<k[1], k[2]>> \in refs => {k[1], k[3]} \subseteq alive
    <3>1. queue = <<>>
      BY <2>1 DEF CascadeInv
    <3>2. Waiting = {}
      BY <3>1 DEF Waiting
    <3>3. \A k \in Keys : Refers(k) => k[3] \in alive
      BY <3>2 DEF CascadeInv, Closed
    <3>4. \A k \in Keys : <<k[1], k[2]>> \in refs => k[1] \in alive
      BY DEF CascadeInv, Closed
    <3>. QED  BY <3>1, <3>3, <3>4 DEF Required, Refers
  <2>. QED  BY <2>1 DEF CascadeInv, CascadeTypeOK
<1>. QED  BY <1>1, AlwaysCascade, PTL

\* The erasure of a tenant is never refused and leaves no row of the tenant.
THEOREM ErasuresAreWhole == CascadeSpec => []ErasureIsWhole
<1>1. CascadeInv => ErasureIsWhole
  BY DEF CascadeInv, ErasedInv, ErasureIsWhole
<1>. QED  BY <1>1, AlwaysCascade, PTL

\* An account, a statement, a transaction or its audit trail leaves by the
\* requests that are about it only.
THEOREM LedgerIsLeftOnRequest == CascadeSpec => LedgerLeavesOnlyOnRequest
<1>. DEFINE Ledger == {"accounts", "transactions", "transaction_audit", "statements"}
            Requested(t) == \/ running' \in {EraseTenant, DeleteStatement}
                            \/ running' = SweepDiscarded /\ discarded
            Leaving == \A t \in Ledger : (t \in alive /\ t \notin alive') => Requested(t)
<1>1. CascadeInv /\ [CascadeNext]_cascadeVars => [Leaving]_cascadeVars
  <2>. SUFFICES ASSUME CascadeInv, CascadeNext, NEW t \in Ledger, t \in alive, t \notin alive'
                PROVE  Requested(t)
    OBVIOUS
  <2>1. t \notin Leaves
    BY DEF Leaves
  <2>2. CASE InsertRow
    BY <2>2 DEF InsertRow
  <2>3. CASE Delete
    <3>1. PICK d \in Deletes : Matches(d) /\ running' = d /\ alive' = alive \ {d[2]}
      BY <2>3 DEF Delete
    <3>2. d[2] = t
      BY <3>1
    <3>3. d \in Reaching
      BY <2>1, <3>2, DeletesDiffer
    <3>. QED  BY <3>1, <3>3 DEF Reaching, Matches
  <2>4. CASE DiscardEmpty
    BY <2>4 DEF DiscardEmpty
  <2>5. CASE CascadeRow
    <3>1. PICK k \in Keys : k[3] = Head(queue)
      BY <2>5 DEF CascadeRow, Pending
    <3>2. queue # <<>> /\ running' = running
      BY <2>5 DEF CascadeRow
    <3>3. Head(queue) \in Waiting
      <4>1. 1 \in DOMAIN queue /\ Head(queue) = queue[1]
        BY <3>2 DEF CascadeInv
      <4>. QED  BY <4>1 DEF Waiting
    <3>4. k[3] \notin Leaves
      BY KeysHold DEF KeyHolds
    <3>5. running \in Reaching /\ (running = SweepDiscarded => discarded)
      BY <3>1, <3>3, <3>4 DEF CascadeInv, LeavesInv
    <3>. QED  BY <3>2, <3>5 DEF Reaching
  <2>6. CASE ForgetRow
    BY <2>6 DEF ForgetRow
  <2>7. CASE NextRow
    BY <2>7 DEF NextRow
  <2>8. CASE Refused
    BY <2>8 DEF Refused, CascadeInv
  <2>9. CASE Done
    BY <2>9 DEF Done
  <2>. QED  BY <2>2, <2>3, <2>4, <2>5, <2>6, <2>7, <2>8, <2>9 DEF CascadeNext
<1>. QED  BY <1>1, AlwaysCascade, PTL DEF CascadeSpec, LedgerLeavesOnlyOnRequest

-----------------------------------------------------------------------------
(* The six, one at a time *)

\* A behaviour of the six is one of each.
THEOREM LedgerBehavesAlone ==
  LedgerSpec => /\ MigrationsSpec /\ CascadeSpec /\ TransfersSpec
                /\ ReviewSpec /\ ReadingSpec /\ Spec
<1>1. LedgerInit => /\ MigrationsInit /\ CascadeInit /\ TransfersInit
                    /\ ReviewInit /\ ReadingInit /\ Init
  BY DEF LedgerInit
<1>2. [LedgerNext]_ledgerVars => [MigrationsNext]_migrationVars
  BY DEF LedgerNext, ledgerVars
<1>3. [LedgerNext]_ledgerVars => [CascadeNext]_cascadeVars
  BY DEF LedgerNext, ledgerVars
<1>4. [LedgerNext]_ledgerVars => [TransfersNext]_transferVars
  BY DEF LedgerNext, ledgerVars
<1>5. [LedgerNext]_ledgerVars => [ReviewNext]_reviewVars
  BY DEF LedgerNext, ledgerVars
<1>6. [LedgerNext]_ledgerVars => [ReadingNext]_readingVars
  BY DEF LedgerNext, ledgerVars
<1>7. [LedgerNext]_ledgerVars => [Next]_vars
  BY DEF LedgerNext, ledgerVars
<1>. QED
  BY <1>1, <1>2, <1>3, <1>4, <1>5, <1>6, <1>7, PTL
     DEF LedgerSpec, MigrationsSpec, CascadeSpec, TransfersSpec, ReviewSpec,
         ReadingSpec, Spec

\* Every variable keeps its type, whichever module is in focus.
THEOREM LedgerTypeCorrect == LedgerSpec => []LedgerTypeOK
<1>1. /\ MigrationsTypeOK /\ CascadeTypeOK /\ TransfersTypeOK
      /\ ReviewTypeOK /\ ReadingTypeOK /\ TypeOK
      => LedgerTypeOK
  BY DEF LedgerTypeOK
<1>. QED
  BY <1>1, LedgerBehavesAlone, MigrationsTypeCorrect, CascadeTypeCorrect,
     TransfersTypeCorrect, ReviewTypeCorrect, ReadingTypeCorrect,
     FingerprintsTypeCorrect, PTL
=============================================================================
