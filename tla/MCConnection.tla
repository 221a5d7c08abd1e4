----------------------------- MODULE MCConnection -----------------------------
(* Instances of Connection for TLC.                                        *)
EXTENDS Connection

Linear(t, d) == [rule |-> "linear", sampleType |-> t, delta |-> d]
Other(r) == [rule |-> r, sampleType |-> "invalid", delta |-> 0]

MCDomainsGap == {NoDomain, Other("null"), Linear("Int64", 1), Linear("Float64", 10)}
MCDomainsBulk == {NoDomain, Linear("Int64", 1)}
================================================================================
