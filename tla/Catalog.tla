------------------------------ MODULE Catalog ------------------------------
(***************************************************************************)
(* The catalogue and what is served from it: manual and xray nodes with     *)
(* their names, the proxy groups, the blueprint one platform's subscription *)
(* was assembled into, the assignment of nodes to a user group, and the     *)
(* background recomputation of those assignments (internal/node,            *)
(* internal/proxygroup, internal/assembly, internal/group, internal/        *)
(* userrender and their wiring in internal/server).                         *)
(*                                                                         *)
(* One xray instance, one user group and one subscription stand for all.    *)
(* A blueprint is never modified, so one at a time is followed. A group's   *)
(* definition matters to a blueprint only when it is assembled: edits are   *)
(* taken while there is none. Downloads change nothing; the properties      *)
(* speak of every download the present state would answer.                  *)
(***************************************************************************)
EXTENDS ClashDoc

CONSTANTS
  ManualNames,   \* names an administrator may give a manual node
  XrayNames,     \* stable names of the instance's inbounds
  Displays,      \* display names an administrator may try
  PresetNames,   \* the groups the schema seeds
  CustomNames,   \* names an administrator may give a group
  Definitions,   \* definitions [type, groups, use, all] he may enter
  Selections,    \* selections he may assemble
  MaxActs        \* bound on the administrator's acts and the instance's answers

NoDisplay == ""   \* the display name of a node that has none

ASSUME CatalogAssumption ==
  /\ MaxActs \in Nat /\ NoDisplay \in Displays
  /\ \A sel \in Selections : sel.kind \in {"clash", "links"}
  /\ (PresetNames \cup CustomNames) \cap ForceNames = {}

VARIABLES
  manual,      \* the manual nodes that exist
  xray,        \* detected node -> [display, enabled, public, seen]
  instance,    \* the instance is enabled
  groups,      \* group name -> definition with preset and enabled
  edits,       \* group updates checked and not yet written
  unchecked,   \* (history) how groups were written that the check for cycles had not seen
  subscribed,  \* the platform has a subscription
  plan,        \* the blueprint followed, or NoPlan
  current,     \* its version is the subscription's current one
  assigned,    \* nodes assigned to the user group
  queued,      \* a recomputation has been started and has not read yet
  reads,       \* candidate sets read by recomputations that have not written
  acts         \* counts acts and answers

catalogVars == <<manual, xray, instance, groups, edits, unchecked, subscribed, plan, current,
          assigned, queued, reads, acts>>

NoPlan == [kind |-> "none"]

nodeVars  == <<manual, xray, instance>>
groupVars == <<groups, edits, unchecked>>
planVars  == <<subscribed, plan, current>>
assignVars == <<assigned, queued, reads>>

\* What the instance last said of a node. Users are pushed to ok and ss, but the
\* latter, stored as "shadowsocks", has no link form; an alien takes no users.
Seen == {"ok", "ss", "alien", "missing"}

(***************************************************************************)
(* Names                                                                    *)
(***************************************************************************)
RenderName(n) == IF n \in DOMAIN xray /\ xray[n].display # NoDisplay THEN xray[n].display ELSE n

NodeNames == manual \cup DOMAIN xray

\* checkRenderNameTx; except is the node that asks, or none
NameFree(name, except) ==
  /\ name \notin ForceNames \cup Reserved \cup DOMAIN groups
  /\ \A n \in NodeNames \ except : RenderName(n) # name

Allocatable(n) == xray[n].seen \in {"ok", "ss"}

Usable(n) == xray[n].enabled /\ Allocatable(n) /\ instance

\* linked: the manual nodes whose protocol and parameters a link can express
Cat(linked) ==
  [nodes |-> [n \in NodeNames |->
                [source |-> IF n \in manual THEN "manual" ELSE "xray",
                 render |-> RenderName(n),
                 usable |-> n \in manual \/ Usable(n),
                 linkable |-> IF n \in manual THEN n \in linked ELSE xray[n].seen = "ok"]],
   groups |-> groups, subscribed |-> subscribed]

Candidates == IF current THEN plan.candidates ELSE {}

\* Targets: what a user inside or outside the group is entitled to
Targets(inside) ==
  {n \in DOMAIN xray \cap Candidates :
     Usable(n) /\ (xray[n].public \/ (inside /\ n \in assigned))}

(***************************************************************************)
(* Nodes                                                                    *)
(***************************************************************************)
CreateManual(n) ==
  /\ n \notin NodeNames /\ NameFree(n, {})
  /\ manual' = manual \cup {n}
  /\ UNCHANGED <<xray, instance, groupVars, planVars, assignVars>>

\* One answer of the instance: listed inbounds are inserted or refreshed, a new
\* one whose name is taken is skipped, one that is gone becomes missing. The
\* callback is not told of a changed protocol: the old value is read after the
\* upsert.
DetectNodes(listed, kind) ==
  LET added     == {n \in listed \ DOMAIN xray : n \notin manual /\ NameFree(n, {})}
      recovered == {n \in listed \cap DOMAIN xray : xray[n].seen = "missing"}
      lost      == {n \in DOMAIN xray \ listed : xray[n].seen # "missing"}
      sight(n)  == IF n \in listed THEN kind[n] ELSE "missing"
  IN  /\ instance
      /\ xray' = [n \in DOMAIN xray \cup added |->
                    IF n \in added
                    THEN [display |-> NoDisplay, enabled |-> TRUE, public |-> FALSE, seen |-> sight(n)]
                    ELSE [xray[n] EXCEPT !.seen = sight(n)]]
      /\ queued' = (queued \/ added \cup recovered \cup lost # {})
      /\ UNCHANGED <<manual, instance, groupVars, planVars, assigned, reads>>

\* A new display name is checked against nodes and groups, a cleared one only
\* by the index over the nodes' render names.
SetDisplayName(n, display) ==
  /\ n \in DOMAIN xray
  /\ IF display = NoDisplay THEN \A k \in NodeNames \ {n} : RenderName(k) # n
     ELSE NameFree(display, {n})
  /\ xray' = [xray EXCEPT ![n].display = display]
  /\ UNCHANGED <<manual, instance, groupVars, planVars, assignVars>>

SetEnabled(n, on) ==
  /\ n \in DOMAIN xray
  /\ xray' = [xray EXCEPT ![n].enabled = on]
  /\ queued' = TRUE
  /\ UNCHANGED <<manual, instance, groupVars, planVars, assigned, reads>>

SetPublic(n, on) ==
  /\ n \in DOMAIN xray
  /\ on => Allocatable(n)
  /\ xray' = [xray EXCEPT ![n].public = on]
  /\ queued' = TRUE
  /\ UNCHANGED <<manual, instance, groupVars, planVars, assigned, reads>>

\* (mutant: the assignments are left behind)
DeleteNode_Bug(n) ==
  /\ n \in NodeNames
  /\ n \in DOMAIN xray => xray[n].seen = "missing"
  /\ manual' = manual \ {n}
  /\ xray' = [k \in DOMAIN xray \ {n} |-> xray[k]]
  /\ UNCHANGED <<instance, groupVars, planVars, assignVars>>

\* Assignments of a deleted node go with it; blueprints keep their references.
DeleteNode(n) ==
  /\ n \in NodeNames
  /\ n \in DOMAIN xray => xray[n].seen = "missing"
  /\ manual' = manual \ {n}
  /\ xray' = [k \in DOMAIN xray \ {n} |-> xray[k]]
  /\ assigned' = assigned \ {n}
  /\ UNCHANGED <<instance, groupVars, planVars, queued, reads>>

\* Switching the instance pauses it: nothing is recomputed.
SwitchInstance ==
  /\ instance' = ~instance
  /\ UNCHANGED <<manual, xray, groupVars, planVars, assignVars>>

(***************************************************************************)
(* Proxy groups                                                             *)
(***************************************************************************)
NewGroup == "(new)"

SubgroupsExist(def, self) ==
  def.groups \ {ForceDirect, ForceOverseas} \subseteq DOMAIN groups \ {self}

\* validateDAG: no group leads back to itself, the forced ones being leaves
Acyclic(refs) ==
  \A s \in (SUBSET DOMAIN refs) \ {{}} : \E g \in s : refs[g] \cap s = {}

References == [g \in DOMAIN groups |-> groups[g].groups]
Edited(self, def) == [g \in DOMAIN groups \cup {self} |-> IF g = self THEN def.groups ELSE groups[g].groups]

ValidDefinition(def, self) ==
  /\ SubgroupsExist(def, self)
  /\ def.type = "select" => def.groups # {} \/ def.use # {} \/ def.all
  /\ Acyclic(Edited(self, def))

Row(def, preset, enabled) ==
  [preset |-> preset, enabled |-> enabled, type |-> def.type, groups |-> def.groups,
   use |-> def.use, all |-> def.all]

\* A new group is checked under a name nothing refers to, not under its own.
CreateCustom(name, def) ==
  /\ NameFree(name, {}) /\ ValidDefinition(def, NewGroup)
  /\ groups' = [g \in DOMAIN groups \cup {name} |-> IF g = name THEN Row(def, FALSE, TRUE) ELSE groups[g]]
  /\ unchecked' = unchecked \cup {how \in {"overlapped", "reused"} :
                     IF how = "overlapped" THEN edits # {} ELSE \E g \in DOMAIN groups : name \in groups[g].groups}
  /\ UNCHANGED <<nodeVars, edits, planVars, assignVars>>

\* Update reads and checks outside its transaction ...
CheckUpdate(name, def) ==
  /\ plan = NoPlan
  /\ name \in DOMAIN groups /\ ValidDefinition(def, name)
  /\ edits' = edits \cup {[name |-> name, def |-> def]}
  /\ UNCHANGED <<nodeVars, groups, unchecked, planVars, assignVars>>

\* ... and writes unconditionally inside it.
WriteUpdate(e) ==
  /\ e \in edits
  /\ edits' = edits \ {e}
  /\ groups' = IF e.name \in DOMAIN groups
               THEN [groups EXCEPT ![e.name] = Row(e.def, @.preset, @.enabled)] ELSE groups
  /\ unchecked' = unchecked \cup (IF edits' # {} THEN {"overlapped"} ELSE {})
  /\ UNCHANGED <<nodeVars, planVars, assignVars>>

SetPresetEnabled(name, on) ==
  /\ name \in DOMAIN groups /\ groups[name].preset
  /\ groups' = [groups EXCEPT ![name].enabled = on]
  /\ UNCHANGED <<nodeVars, edits, unchecked, planVars, assignVars>>

DeleteGroup(name) ==
  /\ name \in DOMAIN groups /\ ~groups[name].preset
  /\ groups' = [g \in DOMAIN groups \ {name} |-> groups[g]]
  /\ UNCHANGED <<nodeVars, edits, unchecked, planVars, assignVars>>

(***************************************************************************)
(* Blueprints and versions                                                  *)
(***************************************************************************)
CreateSubscription ==
  /\ ~subscribed /\ subscribed' = TRUE
  /\ UNCHANGED <<nodeVars, groupVars, plan, current, assignVars>>

DeleteSubscription ==
  /\ subscribed /\ subscribed' = FALSE
  /\ plan' = NoPlan /\ current' = FALSE
  /\ queued' = TRUE
  /\ UNCHANGED <<nodeVars, groupVars, assigned, reads>>

Blueprint(sel, cat) == IF sel.kind = "clash" THEN ClashPlan(sel, cat) ELSE LinkPlan(sel, cat)

\* generate: no blueprint without an output rule, without the forced groups,
\* or with an error of the self-check
Renders(sel, cat) ==
  sel.kind = "clash" => /\ sel.rules # <<>>
                        /\ ForceGroupsHold(Preview(sel, cat))
                        /\ CheckClashContent(Preview(sel, cat))

\* The first version of a subscription becomes current at once.
Generate(sel, linked, activated) ==
  /\ plan = NoPlan
  /\ Validate(sel, Cat(linked)) /\ Renders(sel, Cat(linked))
  /\ plan' = Blueprint(sel, Cat(linked))
  /\ current' = activated
  /\ queued' = (queued \/ activated)
  /\ UNCHANGED <<nodeVars, groupVars, subscribed, assigned, reads>>

\* (mutant: what is assigned is not compared with the version switched to)
SwitchVersion_Bug ==
  /\ plan # NoPlan
  /\ current' = ~current
  /\ UNCHANGED <<nodeVars, groupVars, subscribed, plan, assignVars>>

SwitchVersion ==
  /\ plan # NoPlan
  /\ current' = ~current
  /\ queued' = TRUE
  /\ UNCHANGED <<nodeVars, groupVars, subscribed, plan, assigned, reads>>

(***************************************************************************)
(* Assignments                                                              *)
(***************************************************************************)
SetNodes(ns) ==
  /\ ns \subseteq DOMAIN xray \cap Candidates
  /\ \A n \in ns : Usable(n) /\ ~xray[n].public
  /\ assigned' = ns
  /\ UNCHANGED <<nodeVars, groupVars, planVars, queued, reads>>

\* RecomputeCandidateSet reads the candidates before its transaction ...
ReadCandidates ==
  /\ queued /\ queued' = FALSE
  /\ reads' = reads \cup {Candidates}
  /\ UNCHANGED <<nodeVars, groupVars, planVars, assigned>>

\* ... and removes in it every assignment outside them or no longer usable.
RemoveAssignments(c) ==
  /\ c \in reads
  /\ reads' = reads \ {c}
  /\ assigned' = {n \in assigned : Usable(n) /\ ~xray[n].public /\ n \in c}
  /\ UNCHANGED <<nodeVars, groupVars, planVars, queued>>

-----------------------------------------------------------------------------
Seeded == [g \in PresetNames |->
             Row([type |-> "select", groups |-> {ForceDirect}, use |-> {}, all |-> FALSE], TRUE, TRUE)]

\* A new installation, or one in use: its blueprint, if it has one, may be of a
\* release that stored it without the self-check (and had no overlay yet).
Fresh ==
  /\ manual = {} /\ xray = [n \in {} |-> n] /\ groups = Seeded
  /\ subscribed = FALSE /\ plan = NoPlan /\ current = FALSE

Upgraded ==
  /\ manual = ManualNames
  /\ xray \in [XrayNames -> [display : Displays \ (ManualNames \cup CustomNames), enabled : {TRUE},
                             public : {FALSE}, seen : {"ok"}]]
  /\ \A m, n \in NodeNames : RenderName(m) = RenderName(n) => m = n
  /\ \E customs \in SUBSET CustomNames, def \in Definitions :
       /\ def.groups \subseteq {ForceDirect, ForceOverseas} \cup PresetNames
       /\ customs \cap {RenderName(n) : n \in NodeNames} = {}
       /\ groups = [g \in PresetNames \cup customs |-> IF g \in PresetNames THEN Seeded[g] ELSE Row(def, FALSE, TRUE)]
  /\ subscribed = TRUE
  /\ \/ plan = NoPlan /\ current = FALSE
     \/ \E sel \in Selections, linked \in SUBSET manual :
          /\ sel.overlay.plain
          /\ Validate(sel, Cat(linked))
          /\ plan = Blueprint(sel, Cat(linked)) /\ current = TRUE

CatalogInit ==
  /\ instance = TRUE
  /\ edits = {} /\ unchecked = {}
  /\ assigned = {} /\ queued = FALSE /\ reads = {} /\ acts = 0
  /\ Fresh \/ Upgraded

\* The requests of the administrator and the answers of the instance.
Requested ==
  \/ \E n \in ManualNames : CreateManual(n)
  \/ \E listed \in SUBSET XrayNames : \E kind \in [listed -> Seen \ {"missing"}] : DetectNodes(listed, kind)
  \/ \E n \in XrayNames, display \in Displays : SetDisplayName(n, display)
  \/ \E n \in XrayNames, on \in BOOLEAN : SetEnabled(n, on) \/ SetPublic(n, on)
  \/ \E n \in ManualNames \cup XrayNames : DeleteNode(n)
  \/ SwitchInstance
  \/ \E name \in CustomNames, def \in Definitions : CreateCustom(name, def)
  \/ \E name \in PresetNames \cup CustomNames, def \in Definitions : CheckUpdate(name, def)
  \/ \E name \in PresetNames, on \in BOOLEAN : SetPresetEnabled(name, on)
  \/ \E name \in CustomNames : DeleteGroup(name)
  \/ CreateSubscription
  \/ DeleteSubscription
  \/ \E sel \in Selections, linked \in SUBSET manual, activated \in BOOLEAN : Generate(sel, linked, activated)
  \/ SwitchVersion
  \/ \E ns \in SUBSET XrayNames : SetNodes(ns)

\* What was begun goes on by itself.
Continued ==
  \/ \E e \in edits : WriteUpdate(e)
  \/ ReadCandidates
  \/ \E c \in reads : RemoveAssignments(c)

CatalogNext ==
  \/ acts < MaxActs /\ acts' = acts + 1 /\ Requested
  \/ UNCHANGED acts /\ Continued

CatalogSpec == CatalogInit /\ [][CatalogNext]_catalogVars

-----------------------------------------------------------------------------
(***************************************************************************)
(* Properties                                                               *)
(***************************************************************************)
\* Every part of the state has the shape the code gives it.
CatalogTypeOK ==
  /\ manual \subseteq ManualNames
  /\ DOMAIN xray \subseteq XrayNames
  /\ \A n \in DOMAIN xray :
       xray[n] \in [display : Displays, enabled : BOOLEAN, public : BOOLEAN, seen : Seen]
  /\ PresetNames \subseteq DOMAIN groups /\ DOMAIN groups \subseteq PresetNames \cup CustomNames
  /\ \A g \in DOMAIN groups : groups[g].preset <=> g \in PresetNames
  /\ edits \subseteq [name : PresetNames \cup CustomNames, def : Definitions]
  /\ {instance, subscribed, current, queued} \subseteq BOOLEAN
  /\ unchecked \subseteq {"overlapped", "reused"}
  /\ current => plan # NoPlan
  /\ plan # NoPlan => subscribed /\ plan.kind \in {"clash", "links"}
  /\ assigned \subseteq DOMAIN xray
  /\ reads \subseteq SUBSET XrayNames
  /\ acts \in 0..MaxActs

Serves(kind) == current /\ plan.kind = kind

\* A download renders the plan again.
Document(inside) ==
  RenderClashPlan(plan, [n \in Targets(inside) |-> RenderName(n)], [n \in manual |-> n])

PlannedNames == NamesOf(plan.groups)

OverlayNames ==
  NamesOf(plan.overlay.proxies.prepend \o plan.overlay.proxies.append
          \o plan.overlay.groups.prepend \o plan.overlay.groups.append)

\* The names the plan froze still belong to what bore them, so that no node can
\* have taken one since. A cleared display name is not checked against the
\* groups, and nothing is ever checked against an overlay.
NamesHeld ==
  /\ Range(plan.manual) \subseteq manual
  /\ PlannedNames \ ForceNames \subseteq DOMAIN groups
  /\ \A n \in DOMAIN xray :
       /\ RenderName(n) \notin OverlayNames
       /\ xray[n].display = NoDisplay => n \notin DOMAIN groups

\* Whatever was deleted, disabled or renamed since a blueprint was assembled,
\* every download of it can be loaded by a client: each group keeps a member,
\* each member and rule target exists, the forced groups are there, the overlay
\* has not moved the control plane, and no group leads back to itself as long
\* as the check for cycles saw every edit and the plan's names are held
\* (RenderClashPlan, CheckClashContent; validateDAG).
ServedResolves ==
  Serves("clash") => \A inside \in BOOLEAN :
    LET doc == Document(inside) IN
    /\ Closed(doc)
    /\ ForceNames \subseteq NamesOf(doc.groups)
    /\ doc.control = plan.head.control
    /\ unchecked = {} /\ NamesHeld =>
         Acyclic([g \in NamesOf(doc.groups) |->
                    UNION {h.proxies : h \in {k \in Range(doc.groups) : k.name = g}}])

\* While the plan's names are held, no download shows two entries of one name,
\* though xray nodes are renamed after the plan was frozen
\* (CheckRenderNameNamespaceTx, checkRenderNameTx).
ServedNamesDistinct ==
  Serves("clash") /\ NamesHeld => \A inside \in BOOLEAN :
    LET doc == Document(inside) IN NoRepeatedName(doc.proxies \o doc.groups)

\* The groups of the plan that lead nowhere for this user: the largest set of
\* unforced groups that only refer to each other and to what is not served.
Barren(inside) ==
  LET names     == PlannedNames
      served    == {Direct} \cup Range(plan.manual) \cup Targets(inside)
      barren(s) == \A g \in Range(plan.groups) : g.name \in s =>
                     /\ ~g.all /\ g.use \cap plan.head.providers = {}
                     /\ g.proxies \cap (served \cup (names \ s)) = {}
  IN  UNION {s \in SUBSET (names \ ForceNames) : barren(s)}

\* No xray node bears, or is stored under, a name of the plan.
Unambiguous ==
  ({RenderName(n) : n \in DOMAIN xray} \cup DOMAIN xray) \cap (PlannedNames \cup Range(plan.manual)) = {}

\* A download is what the administrator assembled, restricted to what the user
\* is served. Clash, without an overlay: exactly the groups that lead somewhere,
\* with exactly their served members under their present names, and every rule
\* at its own target unless that group is gone. Node subscriptions: however the
\* nodes have changed since, a user with complete credentials under the advanced
\* mode has a line of his own for exactly the nodes he is entitled to that have a
\* link form, under their present names; any other user has none (RenderClashPlan;
\* Render).
ServedFollows ==
  \A inside \in BOOLEAN :
    LET names == [n \in Targets(inside) |-> RenderName(n)] IN
    /\ Serves("links") => \A ready \in BOOLEAN :
         LET lines == RenderLinkPlan(plan, names, {n \in DOMAIN xray : xray[n].seen = "ok"}, ready)
         IN  {[name |-> l.name, of |-> l.of] : l \in {k \in lines : k.own}} =
               {[name |-> names[n], of |-> n] : n \in {k \in DOMAIN names : ready /\ xray[k].seen # "ss"}}
    /\ Serves("clash") /\ plan.overlay.plain /\ Unambiguous =>
         LET doc    == Document(inside)
             kept   == PlannedNames \ Barren(inside)
             served == {Direct} \cup kept \cup Range(plan.manual) \cup Targets(inside)
         IN  /\ NamesOf(doc.groups) = kept
             /\ \A g \in Range(plan.groups), h \in Range(doc.groups) :
                  g.name = h.name /\ g.proxies \cap served # {} =>
                    h.proxies = {RenderName(n) : n \in g.proxies \cap served}
             /\ \A i \in DOMAIN plan.rules :
                  doc.rules[i].target =
                    IF plan.rules[i].target \in kept THEN plan.rules[i].target ELSE Direct

\* When no recomputation is under way, every assignment is to an enabled, not
\* public candidate the instance still lists, though candidates are read outside
\* the transaction that removes assignments (RecomputeCandidateSet and the
\* callbacks that start it). A paused instance and a protocol that changed
\* under a node start none.
AssignmentsFit ==
  ~queued /\ reads = {} =>
    \A n \in assigned : n \in Candidates /\ xray[n].enabled /\ ~xray[n].public
                       /\ xray[n].seen # "missing"

\* No stored group leads back to itself, though an update is checked before the
\* transaction that writes it, unless two edits overlapped or a new group took a
\* name that a deleted one left in the definition of another (validateDAG).
GroupsAcyclic == unchecked = {} => Acyclic(References)

\* A client loads what is served: every reference in a download finds its
\* definition, and no two definitions of a download bear one name; and what it
\* loads is what was assembled, restricted to what the user is assigned.
ServedRight == ServedResolves /\ ServedNamesDistinct /\ ServedFollows

\* What is stored for the downloads to come is as the checks want it, though each
\* of them is made before the transaction it is made for.
StoredRight == AssignmentsFit /\ GroupsAcyclic
=============================================================================
