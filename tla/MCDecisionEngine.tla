------------------------- MODULE MCDecisionEngine -------------------------
(***************************************************************************)
(* Bounds for DecisionEngine: one executable the catalog pins to a host,   *)
(* upgraded at will, and an exempt one; a host for each verdict of the     *)
(* allowlist, on which its layers disagree.  The prompts ratify more of    *)
(* the pinned one, of each content of the file, and of the name alone.     *)
(***************************************************************************)
EXTENDS DecisionEngine

CONSTANTS curl, agent, curlname, agentname, agentbundle, h1, h2, h3, pinned, allowed, denied

MCNameOf   == [x \in Exe |-> IF x = curl THEN curlname ELSE agentname]
MCTeamOf   == [x \in Exe |-> None]
MCBundleOf == [x \in Exe |-> IF x = agent THEN agentbundle ELSE None]

MCMacRules == {[bundle |-> agentbundle, name |-> None, team |-> None],
               [bundle |-> None, name |-> curlname, team |-> None]}
MCLinuxRules == {[name |-> agentname, package |-> agentbundle]}

MCLabelsOf == [h \in Host |-> CASE h = allowed -> <<"www", "example", "org">>
                                [] h = denied  -> <<"ads", "example", "org">>
                                [] OTHER       -> <<"api", "vendor", "dev">>]

Pattern(wild, base) == [wild |-> wild, base |-> base]

\* The user allows a domain but for one host; the defaults deny what the user allows, and
\* allow it too; a pattern of one label is none.
MCLayers ==
    [knownBad |-> [allow |-> {}, deny |-> {}],
     user     |-> [allow |-> {Pattern("**", <<"example", "org">>)},
                   deny  |-> {Pattern("", <<"ads", "example", "org">>)}],
     defaults |-> [allow |-> {Pattern("*", <<"example", "org">>), Pattern("**", <<"dev">>)},
                   deny  |-> {Pattern("", <<"www", "example", "org">>)}]]

MCUpgrades == {<<curl, h1, h2>>, <<curl, h2, h3>>}

MCInstalled == [x \in Exe |-> h1]

MCBaseline == << [id      |-> [name |-> curlname, path |-> curl, hash |-> h1, team |-> None],
                  expects |-> {pinned},
                  never   |-> {}] >>

Setting(observe, binder, prompt) == [observe |-> observe, binder |-> binder, prompt |-> prompt]

\* Enforcing with all that can be set, whose behaviours include those without; observing
\* with nothing set.
MCOptions == {Setting(FALSE, TRUE, TRUE), Setting(TRUE, FALSE, FALSE)}
=============================================================================
