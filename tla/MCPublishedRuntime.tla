-------------------------- MODULE MCPublishedRuntime --------------------------
(* Constants for model-checking PublishedRuntime on small instances.       *)
EXTENDS PublishedRuntime

CONSTANTS t1, d1, d2, l1, p1

Binding(revision, source) == [revision |-> revision, data |-> [l \in Logicals |-> source]]

Source(revision, body) == [revision |-> revision, body |-> body]

TenantsAt(binding) == [t \in Tenants |-> binding]

SourcesAt(first, second) == [d \in DataSources |-> IF d = d1 THEN first ELSE second]

Snapshot(revision, tenants, sources) ==
    [tenants      |-> [revision |-> revision, payload |-> tenants,
                       emptying |-> "Intended"],
     data_sources |-> [revision |-> revision, payload |-> sources,
                       emptying |-> "NotIntended"],
     catalog      |-> [revision |-> 1, payload |-> {l1}, emptying |-> "NotIntended"],
     registry     |-> None]

\* A tenant placed on one data source, then moved to another that is
\* declared, while the first one changes.
MoveSnapshots ==
    {Snapshot(1, TenantsAt(Binding(1, d1)), SourcesAt(Source(1, "x"), None)),
     Snapshot(2, TenantsAt(Binding(2, d2)), SourcesAt(Source(2, "y"), Source(1, "x")))}

\* A data source declared, retired, and declared again with other content.
RedeclareSnapshots ==
    {Snapshot(1, NoTenants, SourcesAt(Source(1, "x"), Source(1, "x"))),
     Snapshot(2, NoTenants, SourcesAt(Source(1, "x"), None)),
     Snapshot(3, NoTenants, SourcesAt(Source(1, "x"), Source(1, "y")))}

OneContract == [p \in Publishers |-> 3]

================================================================================
