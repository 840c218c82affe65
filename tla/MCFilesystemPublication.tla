------------------------ MODULE MCFilesystemPublication ------------------------
(* Constants for model-checking FilesystemPublication on small instances.  *)
EXTENDS FilesystemPublication

CONSTANTS t1, d1, d2, l1, i1, i2, p1, p2

Binding(revision, source) == [revision |-> revision, data |-> [l \in Logicals |-> source]]

Source(revision, body) == [revision |-> revision, body |-> body]

TenantsAt(binding) == [t \in Tenants |-> binding]

SourcesAt(first, second) == [d \in DataSources |-> IF d = d1 THEN first ELSE second]

\* A snapshot with all three documents at one revision.
Snapshot(revision, tenants, sources, issuers) ==
    [tenants      |-> [revision |-> revision, payload |-> tenants,
                       emptying |-> "Intended"],
     data_sources |-> [revision |-> revision, payload |-> sources,
                       emptying |-> "NotIntended"],
     catalog      |-> [revision |-> 1, payload |-> {l1}, emptying |-> "NotIntended"],
     registry     |-> issuers]

\* Declaring, changing, retiring and redeclaring data sources while a tenant
\* is placed, moved and withdrawn.
ResourceSnapshots ==
    {Snapshot(revision, tenants, sources, None) :
        revision \in 1 .. 3,
        tenants \in {NoTenants, TenantsAt(Binding(1, d1))},
        sources \in {SourcesAt(Source(1, "x"), None),
                     SourcesAt(Source(1, "y"), Source(1, "x")),
                     SourcesAt(Source(2, "y"), None),
                     SourcesAt(None, Source(1, "x"))}}

\* Registrations changing under unchanged documents, and a tenant placed
\* only later.
RegistrySnapshots ==
    {Snapshot(1, NoTenants, SourcesAt(Source(1, "x"), None), issuers) :
        issuers \in {None, {}}}
    \cup
    {Snapshot(2, TenantsAt(Binding(1, d1)), SourcesAt(Source(1, "x"), None), issuers) :
        issuers \in {{<<i1, t1>>}, {<<i2, t1>>}}}

\* Two snapshots that overlap in every document.
ContendedSnapshots ==
    {Snapshot(1, NoTenants, SourcesAt(Source(1, "x"), None), None),
     Snapshot(2, TenantsAt(Binding(1, d1)), SourcesAt(Source(1, "x"), Source(1, "x")), None),
     Snapshot(2, TenantsAt(Binding(1, d2)), SourcesAt(Source(2, "y"), Source(1, "x")), None)}

OneContract == [p \in Publishers |-> 3]

\* A release being rolled out: one publisher still at the older contract.
MixedContracts == [p \in Publishers |-> IF p = p1 THEN 2 ELSE 3]

================================================================================
