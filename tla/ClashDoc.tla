------------------------------ MODULE ClashDoc ------------------------------
(***************************************************************************)
(* The Clash document and what assembly does to it: the selection an        *)
(* administrator assembles is validated and rendered as a preview, frozen   *)
(* as a render plan, and rendered again at every download with the nodes    *)
(* the downloading user is entitled to (backend/internal/assembly).         *)
(*                                                                         *)
(* A document is a record of                                                *)
(*   proxies    a sequence of [name, of]: the name shown to the client and  *)
(*              the catalogue's node (or "overlay") it stands for           *)
(*   groups     a sequence of [name, type, proxies, use, all]; the order of *)
(*              the members is left out, all is any include-all flag        *)
(*   rules      a sequence of [match, target]                               *)
(*   providers  the keys of proxy-providers                                 *)
(*   injected   the xray names the preview knows before they are injected   *)
(*   control    the control-plane keys (mode, ports, secret ...)            *)
(* Node parameters, health-check fields, comments and key order are left    *)
(* out. A catalogue is [nodes, groups, subscribed]: nodes maps a stable     *)
(* name to [source, render, usable, linkable], groups a name to its         *)
(* definition; a node is linkable when a link can be written for it.        *)
(***************************************************************************)
EXTENDS Naturals, Sequences, FiniteSets, SequencesExt

ForceDirect   == "ForceDirect"
ForceOverseas == "ForceOverseas"
ForceFallback == "ForceFallback"
ForceNames    == {ForceDirect, ForceOverseas, ForceFallback}
Direct        == "DIRECT"
Reserved      == {Direct, "REJECT", "REJECT-DROP", "PASS", "COMPATIBLE"}

NamesOf(entries) == {e.name : e \in Range(entries)}

(***************************************************************************)
(* The overlay: [rules, proxies, groups, merge], the first three a record   *)
(* [prepend, delete, append], merge the top-level keys it sets.             *)
(***************************************************************************)
ApplySeq(entries, seq, deleted) ==
  seq.prepend \o SelectSeq(entries, LAMBDA e : e \notin deleted) \o seq.append

Named(entries, names) == {e \in Range(entries) : e.name \in names}

IsSelectorGroup(g) == g.type = "select" /\ g.name \notin ForceNames

\* A deleted node leaves every group; new nodes enter the first selector.
ApplyProxyGroupSideEffects(groups, added, deleted) ==
  LET selectors == {i \in DOMAIN groups : IsSelectorGroup(groups[i])}
      first(i)  == i \in selectors /\ \A j \in selectors : i <= j
  IN  [i \in DOMAIN groups |->
         [groups[i] EXCEPT !.proxies = (@ \ deleted) \cup IF first(i) THEN added ELSE {}]]

DeepMerge(doc, merge) ==
  [key \in DOMAIN doc |->
     IF key \notin DOMAIN merge THEN doc[key]
     ELSE IF key = "providers" THEN doc[key] \cup merge[key]
     ELSE merge[key]]

EnforceControlPlane(doc, before) == [doc EXCEPT !.control = before.control]

AllowedNames(doc) ==
  Reserved \cup NamesOf(doc.proxies) \cup NamesOf(doc.groups) \cup doc.providers \cup doc.injected

CleanupProxyGroups(doc) ==
  LET cleaned(g) ==
        LET uses == g.use \cap doc.providers
        IN  [g EXCEPT !.use = uses,
                      !.proxies = IF uses # {} THEN @ ELSE @ \cap AllowedNames(doc)]
  IN  [doc EXCEPT !.groups = [i \in DOMAIN @ |-> cleaned(@[i])]]

ApplyClashOverlay(doc, overlay) ==
  LET ruled    == [doc EXCEPT !.rules = ApplySeq(@, overlay.rules, overlay.rules.delete)]
      added    == NamesOf(overlay.proxies.prepend \o overlay.proxies.append)
      peopled  == [ruled EXCEPT
                    !.proxies = ApplySeq(@, overlay.proxies, Named(@, overlay.proxies.delete)),
                    !.groups  = ApplyProxyGroupSideEffects(@, added, overlay.proxies.delete)]
      grouped  == [peopled EXCEPT !.groups = ApplySeq(@, overlay.groups, Named(@, overlay.groups.delete))]
  IN  CleanupProxyGroups(EnforceControlPlane(DeepMerge(grouped, overlay.merge), grouped))

(***************************************************************************)
(* The checks of a rendered document.                                       *)
(***************************************************************************)
MayForceRefer == [name \in {ForceOverseas, ForceFallback} |->
                    IF name = ForceOverseas THEN {ForceDirect} ELSE {ForceDirect, ForceOverseas}]

\* checkForceGroupInvariants: no issue.
ForceGroupsHold(doc) ==
  LET groups == Range(doc.groups) IN
  /\ ForceNames \subseteq NamesOf(doc.groups)
  /\ \A g \in groups :
       /\ g.name \in ForceNames => g.type = "select"
       /\ IF g.name = ForceDirect THEN g.proxies = {Direct} ELSE Direct \notin g.proxies
       /\ g.name \in DOMAIN MayForceRefer =>
            /\ g.proxies # {}
            /\ g.proxies \cap NamesOf(doc.groups) \subseteq MayForceRefer[g.name]

NoRepeatedName(entries) == Cardinality(NamesOf(entries)) = Len(entries)

\* References that resolve: what CheckClashContent demands of groups and rules.
Closed(doc) ==
  /\ \A g \in Range(doc.groups) :
       /\ g.type = "select" => g.proxies # {} \/ g.use # {} \/ g.all
       /\ g.proxies \subseteq AllowedNames(doc)
       /\ g.use \subseteq doc.providers
  /\ \A r \in Range(doc.rules) : r.target \in AllowedNames(doc)

\* CheckClashContent: no error. The preview's injected names are gone by then.
CheckClashContent(doc) ==
  /\ NoRepeatedName(doc.proxies) /\ NoRepeatedName(doc.groups)
  /\ Closed([doc EXCEPT !.injected = {}])

(***************************************************************************)
(* Validation of a selection [kind, nodes, groups, orders, overseas,        *)
(* fallback, rules, overlay, head] against the catalogue. nodes and groups  *)
(* are sequences; orders maps some chosen groups to [explicit, refs].       *)
(***************************************************************************)
ChosenNodes(sel) == Range(sel.nodes)
ChosenGroups(sel) == Range(sel.groups)

NodesUsable(sel, cat) ==
  \A n \in ChosenNodes(sel) :
    /\ n \in DOMAIN cat.nodes
    /\ cat.nodes[n].source = "xray" => cat.nodes[n].usable

GroupsUsable(sel, cat) ==
  \A g \in ChosenGroups(sel) :
    /\ g \in DOMAIN cat.groups
    /\ cat.groups[g].preset => cat.groups[g].enabled
    /\ cat.groups[g].groups \subseteq {ForceDirect, ForceOverseas} \cup ChosenGroups(sel)

OrdersFit(sel, cat) ==
  \A g \in DOMAIN sel.orders :
    /\ g \in ChosenGroups(sel)
    /\ sel.orders[g].refs \subseteq ChosenNodes(sel) \cup cat.groups[g].groups

TargetsFit(sel) ==
  \A r \in Range(sel.rules) : r.target \in ForceNames \cup ChosenGroups(sel)

ValidateForceMembers(group, members, sel) ==
  /\ members # {}
  /\ members \subseteq MayForceRefer[group] \cup (ChosenNodes(sel) \ (ForceNames \cup {Direct}))

LinkableChosen(sel, cat) == {n \in ChosenNodes(sel) : cat.nodes[n].linkable}

\* The links' kind needs one node that gets a line (render_sr.go:66 asks more than
\* hasLinkableNode, and of the same request).
Validate(sel, cat) ==
  /\ cat.subscribed
  /\ NodesUsable(sel, cat) /\ GroupsUsable(sel, cat) /\ OrdersFit(sel, cat) /\ TargetsFit(sel)
  /\ IF sel.kind = "clash"
     THEN /\ ValidateForceMembers(ForceOverseas, sel.overseas, sel)
          /\ ValidateForceMembers(ForceFallback, sel.fallback, sel)
     ELSE LinkableChosen(sel, cat) # {}

(***************************************************************************)
(* Rendering: the preview from the catalogue, the plan from the selection,  *)
(* and the document of a download from the plan.                            *)
(***************************************************************************)
ClashGroupMembers(sel, cat, g) ==
  LET defaults == cat.groups[g].groups
  IN  IF g \notin DOMAIN sel.orders THEN defaults
      ELSE IF sel.orders[g].explicit THEN sel.orders[g].refs
      ELSE sel.orders[g].refs \cup defaults

ForceGroup(name, members) ==
  [name |-> name, type |-> "select", proxies |-> members, use |-> {}, all |-> FALSE]

ChosenGroup(sel, cat, g) ==
  [name |-> g, type |-> cat.groups[g].type, proxies |-> ClashGroupMembers(sel, cat, g),
   use |-> cat.groups[g].use, all |-> cat.groups[g].all]

PlannedGroups(sel, cat) ==
  <<ForceGroup(ForceDirect, {Direct}), ForceGroup(ForceOverseas, sel.overseas),
    ForceGroup(ForceFallback, sel.fallback)>>
  \o [i \in DOMAIN sel.groups |-> ChosenGroup(sel, cat, sel.groups[i])]

FallbackRules == <<[match |-> "GEOIP,CN", target |-> Direct], [match |-> "MATCH", target |-> ForceFallback]>>

Renamed(names, by) == {IF n \in DOMAIN by THEN by[n] ELSE n : n \in names}

TranslateGroupMembers(groups, by) ==
  [i \in DOMAIN groups |-> [groups[i] EXCEPT !.proxies = Renamed(@, by)]]

Proxies(stables, by) ==
  [i \in DOMAIN stables |->
     [name |-> IF stables[i] \in DOMAIN by THEN by[stables[i]] ELSE stables[i], of |-> stables[i]]]

\* renderClash up to the overlay: the manual nodes are written out, the xray
\* nodes are only promised.
Preview(sel, cat) ==
  LET isManual(n) == cat.nodes[n].source = "manual"
      shown == [n \in ChosenNodes(sel) |-> cat.nodes[n].render]
  IN  ApplyClashOverlay(
        [proxies   |-> Proxies(SelectSeq(sel.nodes, isManual), shown),
         groups    |-> TranslateGroupMembers(PlannedGroups(sel, cat), shown),
         rules     |-> sel.rules \o FallbackRules,
         providers |-> sel.head.providers,
         injected  |-> {shown[n] : n \in {k \in ChosenNodes(sel) : ~isManual(k)}},
         control   |-> sel.head.control], sel.overlay)

\* The nodes a selection makes candidates for assignment.
XrayChosen(sel, cat) == {n \in ChosenNodes(sel) : cat.nodes[n].source = "xray"}

\* The plan refers to every node by its stable name.
ClashPlan(sel, cat) ==
  [kind    |-> "clash",
   candidates |-> XrayChosen(sel, cat),
   manual  |-> SelectSeq(sel.nodes, LAMBDA n : cat.nodes[n].source = "manual"),
   groups  |-> PlannedGroups(sel, cat),
   rules   |-> sel.rules,
   head    |-> sel.head,
   overlay |-> sel.overlay]

GroupHasProviderOrInclude(g, doc) == g.all \/ g.use \cap doc.providers # {}

\* (mutant: one pass over the groups)
KeptGroups_Bug(doc) ==
  LET names == NamesOf(doc.groups)
      reach == {Direct} \cup NamesOf(doc.proxies) \cup ForceNames
  IN  (ForceNames \cap names)
      \cup {g.name : g \in {h \in Range(doc.groups) :
                \/ GroupHasProviderOrInclude(h, doc)
                \/ h.proxies \cap reach # {}}}

\* The groups that stay: the forced ones, and those that reach something.
KeptGroups(doc) ==
  LET names   == NamesOf(doc.groups)
      reach   == {Direct} \cup NamesOf(doc.proxies)
      forced  == ForceNames \cap names
      leads(g, kept) == \/ GroupHasProviderOrInclude(g, doc)
                        \/ g.proxies \cap kept # {}
                        \/ (g.proxies \ names) \cap reach # {}
      kept[n \in 0..Len(doc.groups)] ==
        IF n = 0 THEN forced
        ELSE LET before == kept[n - 1]
             IN  before \cup {g.name : g \in {h \in Range(doc.groups) : leads(h, before)}}
  IN  kept[Len(doc.groups)]

ConvergeGroup(g, doc, kept) ==
  LET names   == NamesOf(doc.groups)
      reach   == {Direct} \cup NamesOf(doc.proxies)
      members == {n \in g.proxies : IF n \in names THEN n \in kept ELSE n \in reach}
  IN  [g EXCEPT !.proxies =
         IF members # {} \/ g.name \notin ForceNames THEN members
         ELSE IF g.name = ForceDirect THEN {Direct} ELSE {ForceDirect}]

\* Every rule whose target is not one of the final groups goes to DIRECT.
DowngradeRuleLines(rules, final) ==
  [i \in DOMAIN rules |->
     [rules[i] EXCEPT !.target = IF @ \in final \cup {Direct} THEN @ ELSE Direct]]

\* RenderClashPlan: dynamic and manualNames map stable names to render names.
RenderClashPlan(plan, dynamic, manualNames) ==
  LET by   == [n \in DOMAIN dynamic \cup DOMAIN manualNames |->
                 IF n \in DOMAIN dynamic THEN dynamic[n] ELSE manualNames[n]]
      full == ApplyClashOverlay(
                [proxies   |-> Proxies(plan.manual, by) \o Proxies(SetToSeq(DOMAIN dynamic), dynamic),
                 groups    |-> TranslateGroupMembers(plan.groups, by),
                 rules     |-> plan.rules \o FallbackRules,
                 providers |-> plan.head.providers,
                 injected  |-> {},
                 control   |-> plan.head.control], plan.overlay)
      kept  == KeptGroups(full)
      final == SelectSeq([i \in DOMAIN full.groups |-> ConvergeGroup(full.groups[i], full, kept)],
                 LAMBDA g : g.name \in kept
                         /\ (g.name \in ForceNames \/ g.proxies # {} \/ GroupHasProviderOrInclude(g, full)))
  IN  [full EXCEPT !.groups = final, !.rules = DowngradeRuleLines(@, NamesOf(final))]

(***************************************************************************)
(* The node subscriptions (sr-subs, generic-subs): the template's lines     *)
(* [name, of, own], in place of the placeholder the user's nodes at a       *)
(* download; own tells a line written with the user's own credentials.      *)
(***************************************************************************)
\* renderSrSubs: every chosen node that can be written gets a line, any other is
\* skipped; then the placeholder.
LinkPlan(sel, cat) ==
  [kind        |-> "links",
   candidates  |-> XrayChosen(sel, cat),
   lines       |-> {[name |-> cat.nodes[n].render, of |-> n, own |-> FALSE] : n \in LinkableChosen(sel, cat)},
   placeholder |-> XrayChosen(sel, cat) # {}]

Comment == [name |-> "#", of |-> "comment", own |-> FALSE]

\* renderLinkLines: a node whose parameters or link fail is logged and left out.
LinkLines(dynamic, linked) == {[name |-> dynamic[n], of |-> n, own |-> TRUE] : n \in DOMAIN dynamic \cap linked}

\* Render for a link template, only where a placeholder is: the user's nodes, or a
\* comment when the advanced mode is off or his credentials are incomplete.
RenderLinkPlan(plan, dynamic, linked, ready) ==
  plan.lines \cup
    IF ~plan.placeholder THEN {} ELSE IF ready THEN LinkLines(dynamic, linked) ELSE {Comment}
=============================================================================
