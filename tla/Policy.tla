-------------------------------- MODULE Policy --------------------------------
(***************************************************************************)
(* What is decided without asking: internal/allowlist, which a host is     *)
(* looked up in, and internal/exempt, which a process is.                  *)
(*                                                                         *)
(* A host is the sequence of its labels, in which neither case nor a final *)
(* dot is told apart (normalize); a pattern is such a sequence behind "*." *)
(* or "**." or nothing.                                                    *)
(***************************************************************************)
EXTENDS Catalog

CONSTANTS LabelsOf,      \* the labels of each host
          Layers,        \* allowlist.Config
          NameOf,        \* the basename of each path
          TeamOf,        \* the verified signer of each path, or None
          BundleOf,      \* its bundle, or None
          Signed,        \* the paths whose signature is valid
          Interpreter,   \* alwaysFiltered
          MacRules,      \* the rules of the exempt list, the bundled and the user's (Merge)
          LinuxRules

Wildcard == {"", "*", "**"}

\* LoadFromString refuses a rule that names nothing.
ASSUME PolicyAssumption ==
    /\ NameOf \in [Exe -> Name] /\ TeamOf \in [Exe -> Team \cup {None}]
    /\ DOMAIN LabelsOf = Host /\ DOMAIN BundleOf = Exe /\ Signed \subseteq Exe
    /\ Interpreter \subseteq Name
    /\ \A layer \in {"knownBad", "user", "defaults"}, list \in {"allow", "deny"} :
           \A p \in Layers[layer][list] : p.wild \in Wildcard /\ p.base # <<>>
    /\ \A r \in MacRules : r.bundle # None \/ r.name # None
    /\ \A r \in LinuxRules : r.name # None \/ r.package # None

-----------------------------------------------------------------------------
\* validPattern: there is a dot in what follows the wildcard.
ValidPattern(p) == Len(p.base) >= 2

Under(h, base) ==
    /\ Len(h) > Len(base)
    /\ SubSeq(h, Len(h) - Len(base) + 1, Len(h)) = base

MatchPattern(p, h) ==
    /\ ValidPattern(p)
    /\ \/ p.wild # "*" /\ h = p.base
       \/ p.wild # ""  /\ Under(h, p.base)

AnyMatch(patterns, host) == \E p \in patterns : MatchPattern(p, LabelsOf[host])

List(layer, verdict) == [verdict |-> verdict, patterns |-> Layers[layer][verdict]]

\* Mutant: within the user's layer, allow before deny.
ResolutionAllowFirst == << List("knownBad", "deny"), List("user", "allow"), List("user", "deny"),
                           List("defaults", "deny"), List("defaults", "allow") >>

\* The order in which the lists are looked through.
Resolution == << List("knownBad", "deny"), List("user", "deny"), List("user", "allow"),
                 List("defaults", "deny"), List("defaults", "allow") >>

Decide(host) ==
    LET hits == {i \in DOMAIN Resolution : AnyMatch(Resolution[i].patterns, host)}
    IN  IF hits = {} THEN "unknown"
        ELSE Resolution[CHOOSE i \in hits : \A j \in hits : i <= j].verdict

-----------------------------------------------------------------------------
matchMac(r, x) ==
    /\ IF r.bundle # None THEN r.bundle = BundleOf[x] ELSE r.name = NameOf[x]
    /\ r.team # None => r.team = TeamOf[x]

matchLinux(r, x) ==
    /\ r.name # None /\ r.package # None
    /\ r.name = NameOf[x] /\ r.package = TeamOf[x]

\* Mutant: a rule may name an interpreter.
IsExemptByRule(x) ==
    /\ x \in Signed
    /\ \/ \E r \in MacRules : matchMac(r, x)
       \/ \E r \in LinuxRules : matchLinux(r, x)

IsExempt(x) ==
    /\ NameOf[x] \notin Interpreter
    /\ x \in Signed
    /\ \/ \E r \in MacRules : matchMac(r, x)
       \/ \E r \in LinuxRules : matchLinux(r, x)

-----------------------------------------------------------------------------
(* What the lists mean, without an order: an allow holds unless a deny of  *)
(* its own layer or of one above it covers the host.                       *)

Denied(layers, host)  == \E l \in layers : AnyMatch(Layers[l].deny, host)
Allowed(layer, host)  == AnyMatch(Layers[layer].allow, host)
Allowlisted(host) ==
    \/ Allowed("user", host) /\ ~Denied({"knownBad", "user"}, host)
    \/ /\ Allowed("defaults", host)
       /\ ~Denied({"knownBad", "user", "defaults"}, host)
=============================================================================
