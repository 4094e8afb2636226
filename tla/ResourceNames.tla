--------------------------- MODULE ResourceNames ---------------------------
(***************************************************************************)
(* The names of the objects the resource managers create.  Where two names *)
(* meet depends on their characters, so a name is a sequence of them.      *)
(***************************************************************************)
EXTENDS Naturals, Sequences

CONSTANTS
    Char,        \* the characters of names
    None         \* the computation panics

ASSUME NameAssumption == {".", "-"} \subseteq Char /\ None \notin Seq(Char)

Dot == <<".">>

HasSuffix(s, suffix) ==
    /\ Len(suffix) <= Len(s)
    /\ SubSeq(s, Len(s) - Len(suffix) + 1, Len(s)) = suffix

TrimSuffix(s, suffix) ==
    IF HasSuffix(s, suffix) THEN SubSeq(s, 1, Len(s) - Len(suffix)) ELSE s

\* The zone without its trailing dot.
Bare(zone) == TrimSuffix(zone, Dot)

\* The name of the DomainMapping, the Certificate and the CNAMERecord.
GenerateResourceName(hostname, zone) ==
    IF HasSuffix(hostname, Bare(zone)) THEN hostname ELSE hostname \o Dot \o Bare(zone)

\* Mutant: the dot between the record and the zone is not cut off.
GenerateRecordName_KeepsDot(hostname, zone) ==
    IF ~HasSuffix(hostname, Bare(zone)) THEN hostname
    ELSE TrimSuffix(hostname, Bare(zone))

\* The name of the CNAMERecord within the zone.  It is cut by the length of the
\* zone with its dot, which stands for the dot before the zone in the hostname; a
\* hostname that is the zone itself is too short for that.
GenerateRecordName(hostname, zone) ==
    IF ~HasSuffix(hostname, Bare(zone)) THEN hostname
    ELSE IF Len(hostname) < Len(zone) THEN None
    ELSE SubSeq(hostname, 1, Len(hostname) - Len(zone))

\* The name of the PingSource or KafkaSource of an event source.
SourceName(capp, source) == capp \o <<"-">> \o source

\* validation.IsFullyQualifiedDomainName: at least two labels, none empty; a
\* trailing dot is accepted.
IsFullyQualifiedDomainName(name) ==
    LET n == TrimSuffix(name, Dot)
        dots == {i \in 1..Len(n) : n[i] = "."}
    IN  dots # {} /\ \A i \in dots : i > 1 /\ i < Len(n) /\ i + 1 \notin dots
=============================================================================
