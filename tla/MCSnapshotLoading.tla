-------------------------- MODULE MCSnapshotLoading --------------------------
(***************************************************************************)
(* Instances of SnapshotLoading.  The specs have one resource of every     *)
(* type, well formed or not, in the new form and in the deprecated one,    *)
(* and a few have several resources that depend on the cluster.            *)
(***************************************************************************)
EXTENDS SnapshotLoading

Val(format, t, name, body) == [format |-> format, type |-> t, name |-> name, body |-> body]

\* The values for a type: three formats, and one for another type.
ValuesFor(t) ==
    {Val(f, t, "r", "b") : f \in {"json", "yaml", "broken"}}
    \cup {Val("json", IF t = "cluster" THEN "listener" ELSE "cluster", "r", "b")}

Tls(n, blueprint) ==
    [NoResource EXCEPT !.type = "secret", !.generateFromTlsSecret = n, !.blueprint = blueprint]

Opaque(n) ==
    [NoResource EXCEPT !.type = "secret",
        !.generateFromOpaqueSecret = [name |-> n, key |-> "key", alias |-> "r"]]

Discovered ==
    [NoResource EXCEPT !.type = "endpoint",
        !.generateFromEndpointSlices =
            [selector |-> "app", clusterName |-> "r", targetPort |-> "http"]]

New(rs) == [serialization |-> "json", envoyResources |-> None, resources |-> rs]

\* Every combination of the fields of one resource.
SingleResources ==
    UNION {{[type |-> t, value |-> v, generateFromTlsSecret |-> tls,
             generateFromOpaqueSecret |-> opaque, generateFromEndpointSlices |-> from,
             blueprint |-> b] :
               v \in ValuesFor(t) \cup {None}, tls \in {"s1", None},
               opaque \in {None} \cup IF t \in {"secret", "endpoint", "cluster"}
                                     THEN {Opaque("s1").generateFromOpaqueSecret} ELSE {},
               from \in {Discovered.generateFromEndpointSlices, None},
               b \in {"validationContext", None}} : t \in Types}

Deprecated(serialization, values, named) ==
    [serialization |-> serialization, resources |-> None,
     envoyResources |-> [values |-> values, secrets |-> named]]

NoValues == [t \in Types \ {"secret"} |-> <<>>]

Named(n, ref) == [name |-> n, ref |-> ref]

DeprecatedSpecs ==
    UNION {{Deprecated(serialization, [NoValues EXCEPT ![t] = <<v>>], <<>>) :
              serialization \in {"json", "yaml"}, v \in ValuesFor(t)} :
                t \in Types \ {"secret"}}
    \cup {Deprecated("json", NoValues, <<Named("s1", ref)>>) :
            ref \in {None, [name |-> "", namespace |-> ""],
                     [name |-> "s1", namespace |-> "other"],
                     [name |-> "s2", namespace |-> "own"]}}

SeveralResources ==
    {<<Tls("s1", None), Opaque("s2")>>,
     <<Opaque("s2"), Discovered>>,
     <<[NoResource EXCEPT !.type = "endpoint", !.value = Val("json", "endpoint", "r", "b")],
       Discovered>>}

MCSpecs ==
    {New(rs) : rs \in SeveralResources}
    \cup {New(<<r>>) : r \in SingleResources}
    \cup DeprecatedSpecs
    \cup {[serialization |-> "json", envoyResources |-> None, resources |-> None],
          [New(<<>>) EXCEPT !.envoyResources = [values |-> NoValues, secrets |-> <<>>]]}

\* Specs with two deprecated secrets.
TwoSecrets == {Deprecated("json", NoValues, <<Named("s1", None), Named("s2", None)>>)}

Crt(x) == [type |-> "tls", data |-> [k \in {"tls.crt", "tls.key"} |-> x]]

MCSecretValues == {Crt("1"), Crt("2"), [type |-> "opaque", data |-> [key |-> "1"]],
                   [type |-> "opaque", data |-> [other |-> "2"]]}

Host(address, terminating, serving, ready) ==
    [address |-> address, terminating |-> terminating, serving |-> serving, ready |-> ready]

Slice(hosts) ==
    [label |-> "app", addressType |-> "IPv4", ports |-> [http |-> 8080], endpoints |-> hosts]

Up == Slice(<<Host("10.0.0.1", None, None, TRUE)>>)

\* Three kinds of slices: one host, several hosts of which one is no address,
\* and one that cannot come first in the list.
MCSliceValues ==
    {Up,
     Slice(<<Host("10.0.0.1", TRUE, TRUE, FALSE), Host("not-an-ip", None, None, TRUE),
             Host("10.0.0.2", FALSE, FALSE, TRUE), Host("10.0.0.3", None, None, None)>>),
     [Up EXCEPT !.addressType = "FQDN", !.ports = [other |-> 8080]]}

\* At first the cluster has nothing, or a Secret of each type and one slice.
MCClusters ==
    {[secrets |-> [n \in SecretNames |-> None], slices |-> [n \in SliceNames |-> None]],
     [secrets |-> [n \in SecretNames |->
                     IF n = "s1" THEN Crt("1") ELSE [type |-> "opaque", data |-> [key |-> "1"]]],
      slices |-> [n \in SliceNames |->
                     IF n = "e1" THEN Up ELSE None]]}
=============================================================================
