---------------------------- MODULE RoutingRules ----------------------------
(***************************************************************************)
(* The split-routing rules of the panel and what each subscription format  *)
(* makes of them (subscription.js): Xray buckets them by action, sing-box   *)
(* by action and type, Clash keeps their order, HAPP gets four lists.       *)
(* A rule's value is known by the destinations it covers.                   *)
(***************************************************************************)
EXTENDS Naturals, Sequences, SequencesExt, FiniteSets

CONSTANTS
    RuleValue,      \* <<type, value>> pairs an administrator may choose
    Covers,         \* the destinations each pair covers
    Destination,    \* what a client may connect to
    NoRuleSet,      \* pairs without a published sing-box rule set
    MaxRules        \* bound on the list

VARIABLES
    rules,          \* settings.routing.rules
    routed          \* settings.routing.enabled

ruleVars == <<rules, routed>>

SiteType == {"domain_suffix", "domain_keyword", "domain", "geosite"}
IpType   == {"geoip", "ip_cidr"}
Rule     == [value : RuleValue, action : {"direct", "block"}, enabled : BOOLEAN]

RulesInit == rules = <<>> /\ routed = FALSE

\* The form sends the whole list; one row differs from what was loaded.
AddRule ==
    /\ Len(rules) < MaxRules
    /\ \E r \in Rule : rules' = Append(rules, r)
    /\ UNCHANGED routed

EditRule ==
    /\ \E i \in DOMAIN rules : rules' = [rules EXCEPT ![i].enabled = ~@]
    /\ UNCHANGED routed

RemoveRule ==
    /\ \E i \in DOMAIN rules : rules' = RemoveAt(rules, i)
    /\ UNCHANGED routed

ToggleRouting == routed' = ~routed /\ UNCHANGED rules

RulesNext == AddRule \/ EditRule \/ RemoveRule \/ ToggleRouting
RulesSpec == RulesInit /\ [][RulesNext]_ruleVars

-----------------------------------------------------------------------------
(* The converters.  Each yields <<[over, action], ...>>, the first match    *)
(* wins, and what nothing matches goes through the proxy.                   *)

Enabled == SelectSeq(rules, LAMBDA r : r.enabled)
Values(seq) == {seq[i].value : i \in DOMAIN seq}
Over(values) == UNION {Covers[v] : v \in values}

Entry(values, action) ==
    IF values = {} THEN <<>> ELSE <<[over |-> Over(values), action |-> action]>>

Bucket(action, types) ==
    Values(SelectSeq(Enabled, LAMBDA r : r.action = action /\ r.value[1] \in types))

\* Mutant of XrayRules: a second list of the same action is lost.
XrayRulesSitesOnly ==
    Entry(Bucket("direct", SiteType), "direct") \o Entry(Bucket("block", SiteType), "block")

\* buildXrayRules: four buckets, in a fixed order.
XrayRules ==
    Entry(Bucket("direct", SiteType), "direct") \o Entry(Bucket("direct", IpType), "direct")
    \o Entry(Bucket("block", SiteType), "block") \o Entry(Bucket("block", IpType), "block")

\* buildSingboxRules: a bucket per action and type, in the order of their first
\* rules; values without a rule set are dropped.
FirstOfBucket(i) ==
    \A j \in 1..(i - 1) : \/ Enabled[j].action # Enabled[i].action
                          \/ Enabled[j].value[1] # Enabled[i].value[1]

SingboxRules ==
    FlattenSeq([i \in DOMAIN Enabled |->
        IF FirstOfBucket(i)
        THEN Entry(Bucket(Enabled[i].action, {Enabled[i].value[1]}) \ NoRuleSet,
                   Enabled[i].action)
        ELSE <<>>])

\* buildClashRules: one line per rule.
ClashRules ==
    [i \in DOMAIN Enabled |-> [over |-> Covers[Enabled[i].value], action |-> Enabled[i].action]]

\* buildHappRoutingProfile: the lists for the application to match.
HappProfile == [action \in {"direct", "block"} |-> Over(Bucket(action, SiteType \cup IpType))]

Verdict(entries, d) ==
    LET hits == SelectSeq(entries, LAMBDA e : d \in e.over) IN
    IF ~routed \/ hits = <<>> THEN "proxy" ELSE hits[1].action

HappVerdicts(d) ==
    LET hits == {a \in {"direct", "block"} : d \in HappProfile[a]} IN
    IF ~routed \/ hits = {} THEN {"proxy"} ELSE hits

\* The values whose names are resolved by the domestic server.
XrayDomestic    == Over(Bucket("direct", {"domain_suffix", "domain", "geosite"}))
SingboxDomestic == Over(Bucket("direct", {"domain_suffix"})
                        \cup (Bucket("direct", {"geosite"}) \ NoRuleSet))
ClashDomestic   == Over(Bucket("direct", {"domain_suffix", "geosite"}))

-----------------------------------------------------------------------------
Asked(d)    == {r.action : r \in {Enabled[i] : i \in {j \in DOMAIN Enabled :
                                                        d \in Covers[Enabled[j].value]}}}
Dropped(d)  == \A i \in DOMAIN Enabled :
                   d \in Covers[Enabled[i].value] => Enabled[i].value \in NoRuleSet

\* Whatever application a user has: where the rules do not contradict each other,
\* every format sends a destination the same way, and no format resolves a name
\* at the domestic server whose traffic then goes through the proxy.
FormatsAgree ==
    \A d \in Destination :
        /\ Cardinality(Asked(d)) <= 1 =>
            /\ Verdict(XrayRules, d) = Verdict(ClashRules, d)
            /\ HappVerdicts(d) = {Verdict(ClashRules, d)}
            /\ Verdict(SingboxRules, d) =
                   IF Dropped(d) THEN "proxy" ELSE Verdict(ClashRules, d)
        /\ routed =>
            /\ d \in XrayDomestic => Verdict(XrayRules, d) = "direct"
            /\ d \in SingboxDomestic => Verdict(SingboxRules, d) # "proxy"
            /\ d \in ClashDomestic => Verdict(ClashRules, d) # "proxy"

\* What the comment on buildXrayRules says: "We process in order and flush when
\* action changes", so of two rules for a destination the first one decides.
RulesInOrder ==
    \A d \in Destination : Verdict(XrayRules, d) = Verdict(ClashRules, d)
=============================================================================
