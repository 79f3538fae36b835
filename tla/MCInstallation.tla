--------------------------- MODULE MCInstallation ---------------------------
(* Installation for model checking. *)
EXTENDS Installation, TLC

CONSTANTS t1, t2, previous, current

\* An earlier release lacks the last migration.
MCRegistry ==
    [r \in Release |->
        CASE r = previous -> [v \in 1..5 |-> v]
          [] r = current -> [v \in 1..6 |-> v]]

Empty == [exists |-> FALSE, marker |-> FALSE, roles |-> FALSE, company |-> FALSE,
          admin |-> FALSE, origin |-> <<>>, oldest |-> NoTenant, primary |-> NoTenant,
          perms |-> {}, roleGrants |-> {}, grants |-> {}, members |-> {}, settings |-> {},
          plans |-> FALSE, isolated |-> FALSE]

MCFresh == {Empty}

\* Installed before there were tenants, with the permissions p.
Company(p) ==
    [Empty EXCEPT !.exists = TRUE, !.marker = TRUE, !.roles = TRUE, !.company = TRUE,
                  !.admin = TRUE, !.perms = p, !.roleGrants = (Roles \X p) \cap DefaultGrants]

\* With two tenants, of which c is closed, and the permissions p, which the roles of the
\* tenants have but for those revoked.
Tenants(c, p, revoked) ==
    [Company(p) EXCEPT !.origin = [t \in {t1, t2} |-> IF t = c THEN "closed" ELSE "legacy"],
                       !.oldest = t1, !.members = {t1, t2},
                       !.grants = {<<t, g[1], g[2]>> : t \in {t1, t2},
                                     g \in Company(p).roleGrants} \ revoked]

\* As the sixth migration leaves it.
Complete(d) == [d EXCEPT !.plans = TRUE, !.isolated = TRUE, !.settings = DOMAIN d.origin]

\* The ledgers: none, one older than checksums, one of an earlier release, a complete
\* one without checksums, one of a release in which the text of a migration was
\* changed, and one that lost a row.
MCLegacy ==
    {[db |-> Company({"entity.view"}), ledger |-> <<>>],
     [db |-> Company({"user.delete"}), ledger |-> [v \in 1..3 |-> NoDigest]],
     [db |-> Tenants(t1, {"entity.view"}, {<<t2, "admin", "entity.view">>}), ledger |-> <<>>],
     [db |-> Tenants(t2, {"user.delete", "audit.view", "entity.view"},
                     {t1, t2} \X {"admin"} \X {"audit.view", "entity.view"}),
      ledger |-> [v \in 1..5 |-> v]],
     [db |-> [Complete(Tenants(NoTenant, Vocabulary, {<<t2, "admin", "audit.view">>}))
                 EXCEPT !.primary = t1],
      ledger |-> [v \in 1..6 |-> NoDigest]],
     [db |-> Company({}), ledger |-> [v \in 1..3 |-> IF v = 2 THEN 20 ELSE v]],
     [db |-> Company({}), ledger |-> (1 :> 1) @@ (3 :> 3)]}

Symmetry == Permutations(Replica) \cup Permutations(Request)
=============================================================================
