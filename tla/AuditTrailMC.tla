---------------------------- MODULE AuditTrailMC ----------------------------
(* AuditTrail for TLC: the schemas a database may have to begin with.       *)
EXTENDS AuditTrail

LegacyPrefixes == {CreatedBy(1..k) : k \in 0..4}

\* drizzle-kit push, or migrations applied by hand and not to the end.
OtherSchemas ==
    { Objects, CreatedBy(1..3) \union {"schema_version"}, {"users"},
      CreatedBy({1, 5}) \ {"foreign_keys"}, CreatedBy(1..2) \union {"role"} }

LegacySchemas == LegacyPrefixes \union OtherSchemas
=============================================================================
