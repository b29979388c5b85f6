------------------------------ MODULE Catalog ------------------------------
(***************************************************************************)
(* internal/catalog: the facts about which executable may reach which host,*)
(* and the lookup a decision is taken by.  A catalog is a sequence, in the *)
(* order its layers were merged and its entries ratified.                  *)
(*                                                                         *)
(* An identity has a name, a path with the hash of the file there, and a   *)
(* signing team, each possibly None; "team" stands for TeamID and BundleID,*)
(* which are matched alike.  Hosts are compared normalized.                *)
(***************************************************************************)
EXTENDS Naturals, Sequences

CONSTANTS None,      \* an absent field
          Name,      \* the basenames of executables
          Exe,       \* their paths
          Hash,      \* their contents
          Team,      \* the signing teams
          Host       \* the destinations

ASSUME CatalogAssumption == None \notin Name \cup Exe \cup Hash \cup Team \cup Host

Identity == [name : Name \cup {None}, path : Exe \cup {None}, hash : Hash \cup {None},
             team : Team \cup {None}]

Entry == [id : Identity, expects : SUBSET Host, never : SUBSET Host]

-----------------------------------------------------------------------------
\* identityDescribes: every field the entry gives is the query's.
Anonymous(id) == id.hash = None /\ id.team = None /\ id.name = None

Describes(want, got) ==
    /\ ~Anonymous(want)
    /\ want.path # None => got.hash # None /\ got.path = want.path /\ got.hash = want.hash
    /\ want.path = None /\ want.hash # None => got.hash = want.hash
    /\ want.team # None => got.team = want.team
    /\ want.name # None => got.name = want.name

\* HasDecisionPin: enough of an identity to decide on without asking.
HasDecisionPin(id) == (id.path # None /\ id.hash # None) \/ id.team # None

\* staleBinary: another file at the path of a pin.
StaleBinary(want, got) ==
    /\ want.path # None /\ want.hash # None /\ got.path = want.path
    /\ got.hash # None /\ got.hash # want.hash

\* What one entry has to say of a connection.
Verdict(e, id, host) ==
    CASE host \in e.never /\ (Describes(e.id, id) \/ StaleBinary(e.id, id)) -> "never"
      [] host \in e.expects /\ Describes(e.id, id) /\ HasDecisionPin(e.id)  -> "fact"
      [] host \in e.expects /\ Describes(e.id, id) /\ ~HasDecisionPin(e.id) -> "context"
      [] host \in e.expects /\ StaleBinary(e.id, id)                        -> "stale"
      [] OTHER                                                              -> "none"

\* Mutant: an allow ends the search before a later layer's never is seen.
RankFactFirst(verdict) == CASE verdict = "none"    -> 0
                            [] verdict = "stale"   -> 1
                            [] verdict = "context" -> 2
                            [] verdict = "never"   -> 3
                            [] verdict = "fact"    -> 4

Rank(verdict) == CASE verdict = "none"    -> 0
                   [] verdict = "stale"   -> 1
                   [] verdict = "context" -> 2
                   [] verdict = "fact"    -> 3
                   [] verdict = "never"   -> 4

\* Lookup: the strongest verdict of any entry.
Lookup(catalog, id, host) ==
    LET said == {"none"} \cup {Verdict(catalog[i], id, host) : i \in 1..Len(catalog)}
    IN  CHOOSE v \in said : \A w \in said : Rank(w) <= Rank(v)

\* AddIfAbsent, and the validation that rejects an entry without an identity.
AddIfAbsent(catalog, e) ==
    IF Anonymous(e.id) \/ \E i \in 1..Len(catalog) : catalog[i] = e THEN catalog
    ELSE Append(catalog, e)

-----------------------------------------------------------------------------
Says(catalog, id, host, verdict) ==
    \E i \in 1..Len(catalog) : Verdict(catalog[i], id, host) = verdict
=============================================================================
