------------------------- MODULE MCPartitionedHSTS -------------------------
(* Two sites, one with a subdomain and one without a registrable domain;     *)
(* secure, insecure and opaque top frames.                                   *)
EXTENDS PartitionedHSTS, TLC

CONSTANTS a, sub, b

MCHost == {a, sub, b}
MCSuperdomains == (a :> <<a>>) @@ (sub :> <<sub, a>>) @@ (b :> <<b>>)
MCDomain == (a :> a) @@ (sub :> a) @@ (b :> b)
MCNoDomain == {b}
MCHeader == {[age |-> 0, subdomains |-> FALSE], [age |-> 1, subdomains |-> TRUE]}
MCTopFrame ==
    {[scheme |-> "https", host |-> a], [scheme |-> "http", host |-> a],
     [scheme |-> "https", host |-> sub], [scheme |-> "https", host |-> b],
     [scheme |-> "opaque", host |-> a],
     [scheme |-> "opaque", host |-> b], [scheme |-> "opaque", host |-> NoHost], NoTopFrame}
=============================================================================
