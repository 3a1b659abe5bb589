------------------------------ MODULE NodeForm ------------------------------
(***************************************************************************)
(* Editing a manual node (backend/internal/node): a form is opened at a    *)
(* revision, a save merges it with the stored node, decides what becomes   *)
(* of every credential and of the unknown extension, and commits only if   *)
(* the revision is still the one the form was opened at.                   *)
(*                                                                         *)
(* One node name, several editors.  The 19 protocols are represented by    *)
(* two that share a credential path: ss (a plugin with a password of its   *)
(* own, a feature with parameters) and trojan (a transport with            *)
(* parameters and an input alias, an inner password no form section        *)
(* resets).  A parameter is Absent, Blank (submitted empty, a choice on    *)
(* its default or a toggle switched off), On (a choice or toggle made) or  *)
(* one of the values typed so far, which are numbered.                     *)
(***************************************************************************)
EXTENDS Integers, FiniteSets

CONSTANTS Editors,      \* administrators with a form of the node
          MaxTyped,     \* bound: values typed in a behaviour
          MaxRevision,  \* bound: saves of one node
          MaxNodes      \* bound: nodes created under the name

ASSUME FormAssumption == {MaxTyped, MaxRevision, MaxNodes} \subseteq Nat \ {0}

VARIABLES row,      \* the nodes row of the name, NoNode when there is none
          ids,      \* the last id handed out (AUTOINCREMENT)
          form,     \* per editor: the revision opened and the save prepared from it
          typed,    \* number of values typed so far
          home,     \* history: the protocol each value was typed for
          retired   \* history: values that were stored once and then no longer

formVars == <<row, ids, form, typed, home, retired>>

Absent == 0
Blank == -1
On == 1
Values == 1..MaxTyped

Protocols == {"ss", "trojan"}
Choices == {"plugin", "smux", "network"}
Fields == Choices \cup {"password", "plugin-password", "smux-opts", "ws-opts", "ws-path", "inner-password"}
Sensitive == {"password", "plugin-password", "inner-password"}
Scopes == {"plugin", "network", "smux", "protocol"}
ExtensionScopes == {"node", "plugin", "network", "smux"}
NoNode == [id |-> 0, revision |-> 0]
NoExtension == [scope |-> "none", payload |-> Absent]
Nothing == [f \in Fields |-> Absent]

Schema(protocol) ==
  IF protocol = "ss" THEN {"password", "plugin", "plugin-password", "smux", "smux-opts"}
                     ELSE {"password", "network", "ws-opts", "inner-password"}

(* The fields a reset scope clears. *)
ResetBy(scope) ==
  {f \in Fields : \/ scope = "protocol"
                  \/ scope = "plugin" /\ f \in {"plugin", "plugin-password"}
                  \/ scope = "network" /\ f = "ws-opts"
                  \/ scope = "smux" /\ f \in {"smux", "smux-opts"}}

(* DeriveCurrentState: the branches the parameters select. *)
ActiveScopes(protocol, v) ==
  {"node"} \cup {s \in Choices \cap Schema(protocol) : v[s] = On}

(* Alias spellings move to the canonical field, which wins. *)
NormalizeProtocolJSON(protocol, v) ==
  IF protocol = "ss" THEN v
  ELSE [v EXCEPT !["ws-opts"] = IF @ = Absent THEN v["ws-path"] ELSE @, !["ws-path"] = Absent]

(* The parameters of a feature that is not switched on are dropped. *)
cleanDisabledFeatures(v) == IF v["smux"] = On THEN v ELSE [v EXCEPT !["smux-opts"] = Absent]

validateKnownTopLevel(protocol, v) == \A f \in Fields \ Schema(protocol) : v[f] = Absent

(* What the form shows: normalised, credentials blanked. *)
redactSensitive(r) ==
  [f \in Fields |-> IF f \in Sensitive /\ r.params[f] # Absent THEN Blank
                                                   ELSE cleanDisabledFeatures(r.params)[f]]

mergeProtocolJSON(protocol, old, incoming, resets) ==
  [f \in Fields |->
     IF f \notin Schema(protocol) THEN Absent
     ELSE IF incoming[f] # Absent THEN incoming[f]
     ELSE IF \E s \in resets : f \in ResetBy(s) THEN Absent
     ELSE cleanDisabledFeatures(old)[f]]

(* Every credential is kept, cleared, or restored when nothing was typed. *)
mergeSensitiveWithOps(protocol, old, v, resets, d) ==
  LET off == {f \in {"smux"} \cap Schema(protocol) : v[f] # On}
      reset(f) == \E s \in resets \cup off : f \in ResetBy(s)
      op(f) == IF d.touch = f THEN d.op ELSE "none"
      kept(f) == IF reset(f) THEN Absent ELSE IF old[f] # Absent THEN old[f] ELSE v[f]
      merged(f) == IF ~reset(f) /\ old[f] # Absent /\ v[f] \in {Absent, Blank} THEN old[f] ELSE v[f]
  IN [f \in Fields |->
        IF f \notin Sensitive \cap Schema(protocol) THEN v[f]
        ELSE IF op(f) = "clear" THEN Absent
        ELSE IF op(f) = "keep" THEN kept(f)
        ELSE merged(f)]

(* (mutant: a required credential may be cleared) *)
validateProtocolFields_Bug(v) == v["password"] # Blank

validateProtocolFields(v) == v["password"] \notin {Absent, Blank}

(* A record whose branch is reset or no longer active is dropped. *)
CarriedOver(old, active, resets) ==
  IF "protocol" \in resets \/ old.scope \in resets \/ old.scope \notin active THEN NoExtension ELSE old

(* The extension after its operation: the set is empty when it is refused. *)
prepareExtensionOps(old, active, resets, op, t) ==
  LET left == CarriedOver(old, active, resets)
  IN {x \in [scope : ExtensionScopes, payload : Values] \cup {NoExtension} :
        \/ op.kind \in {"none", "keep"} /\ x = left
        \/ op.kind = "clear" /\ x = NoExtension
        \/ /\ op.kind = "replace" /\ left # NoExtension
           /\ op.scope \in active /\ x = [scope |-> op.scope, payload |-> t]
        \/ /\ op.kind = "add" /\ left = NoExtension
           /\ op.scope \in active /\ x = [scope |-> op.scope, payload |-> t]}

(***************************************************************************)
(* Drafts: one field touched, or an extension operation, with the scopes   *)
(* the form resets, sent as the whole form (credentials blank) or only the *)
(* change.                                                                 *)
(***************************************************************************)
NoOp == [kind |-> "none", scope |-> "node"]
ExtensionOps == {NoOp} \cup [kind : {"keep", "clear"}, scope : {"node"}]
                       \cup [kind : {"replace", "add"}, scope : ExtensionScopes]
Touches == {[touch |-> f, value |-> x, op |-> "none"] : f \in Fields \ Choices, x \in {"blank", "new"}}
      \cup {[touch |-> f, value |-> x, op |-> "none"] : f \in Choices, x \in {"blank", "on"}}
      \cup {[touch |-> f, value |-> x, op |-> o] : f \in Sensitive, x \in {"none", "new"}, o \in {"keep", "clear"}}
Untouched == [touch |-> "smux", value |-> "none", op |-> "none"]
Resets == {{}} \cup {{s} : s \in Scopes}
Drafts == UNION {     [change : {c \in Touches : c.touch \in Schema(p) \cup {"ws-path"}}, ext : {NoOp},
                       whole : BOOLEAN, protocol : {p}, resets : Resets]
                 \cup [change : {Untouched}, ext : ExtensionOps, whole : {TRUE}, protocol : {p}, resets : Resets] :
                 p \in Protocols}

Types(d) == d.change.value = "new" \/ d.ext.kind \in {"replace", "add"}

Submitted(r, d, t) ==
  LET shown == redactSensitive(r)
      base == [f \in Fields |-> IF d.whole /\ f \in Schema(d.protocol) THEN shown[f] ELSE Absent]
      value == [none |-> base[d.change.touch], blank |-> Blank, on |-> On, new |-> t]
  IN [base EXCEPT ![d.change.touch] = value[d.change.value]]

(* (mutant: a change of the protocol does not reset what it must) *)
ResetScopes_Bug(r, d) == d.resets

(* The reset scopes of a save: a change of protocol resets everything. *)
ResetScopes(r, d) == d.resets \cup (IF d.protocol # r.protocol THEN {"protocol"} ELSE {})

(* The rows a save of draft d leaves (none when a validation refuses it). *)
Edited(r, d, t) ==
  LET p == d.protocol
      resets == ResetScopes(r, d)
      incoming == NormalizeProtocolJSON(p, Submitted(r, d, t))
      merged == cleanDisabledFeatures(NormalizeProtocolJSON(p, mergeProtocolJSON(p, r.params, incoming, resets)))
      final == mergeSensitiveWithOps(p, r.params, merged, resets, d.change)
      active == ActiveScopes(p, merged)
  IN IF /\ validateKnownTopLevel(p, incoming)
        /\ d.change.op # "none" => d.change.touch \in Schema(p)
        /\ validateProtocolFields(final)
       THEN {[id |-> r.id, revision |-> r.revision + 1, protocol |-> p,
              params |-> cleanDisabledFeatures(final), state |-> active, ext |-> x] :
                x \in prepareExtensionOps(r.ext, active, resets, d.ext, t)}
       ELSE {}

-----------------------------------------------------------------------------
(* Values a row stores, parameters and extension payload alike. *)
Stored(r) == IF r = NoNode THEN {}
             ELSE ({r.params[f] : f \in Fields \ Choices} \cup {r.ext.payload}) \ {Absent, Blank}

NoForm == [id |-> 0, revision |-> 0, save |-> NoNode]

FormInit == /\ row = NoNode
            /\ ids = 0
            /\ form = [e \in Editors |-> NoForm]
            /\ typed = 0
            /\ home = [x \in Values |-> "none"]
            /\ retired = {}

(* Write a row: what it no longer stores is retired. *)
Write(r) == row' = r /\ retired' = retired \cup (Stored(row) \ Stored(r))

(* A new value is typed for protocol p when the input has one. *)
Type(yes, p) ==
  IF yes THEN /\ typed < MaxTyped
              /\ typed' = typed + 1
              /\ home' = [home EXCEPT ![typed + 1] = p]
         ELSE UNCHANGED <<typed, home>>

(* CreateManual: refused by the name index while the name is taken. *)
CreateManual(p, choice) ==
  LET v == cleanDisabledFeatures(NormalizeProtocolJSON(p, [Nothing EXCEPT !["password"] = typed + 1, ![choice] = On]))
  IN /\ row = NoNode /\ ids < MaxNodes
     /\ Type(TRUE, p)
     /\ validateKnownTopLevel(p, v) /\ validateProtocolFields(v)
     /\ Write([id |-> ids + 1, revision |-> 1, protocol |-> p, params |-> v,
               state |-> ActiveScopes(p, v), ext |-> NoExtension])
     /\ ids' = ids + 1
     /\ UNCHANGED form

(* ImportURIs: a line whose name is taken or that does not validate is skipped. *)
ImportURIs(p) ==
  LET v == NormalizeProtocolJSON(p, [Nothing EXCEPT !["password"] = typed + 1,
                                                    ![IF p = "ss" THEN "plugin" ELSE "network"] = On])
  IN /\ ids < MaxNodes
     /\ row = NoNode
     /\ Type(TRUE, p)
     /\ Write([id |-> ids + 1, revision |-> 1, protocol |-> p, params |-> cleanDisabledFeatures(v),
               state |-> ActiveScopes(p, v), ext |-> NoExtension])
     /\ ids' = ids + 1
     /\ UNCHANGED form

Open(e) == /\ row # NoNode
           /\ form[e] = NoForm
           /\ form' = [form EXCEPT ![e] = [id |-> row.id, revision |-> row.revision, save |-> NoNode]]
           /\ UNCHANGED <<row, ids, typed, home, retired>>

(* UpdateManual up to its transaction: the row is read, the form must be at *)
(* its revision, the merged row is built; a refusal ends the form.          *)
Prepare(e) ==
  /\ form[e].id # 0 /\ form[e].save = NoNode
  /\ UNCHANGED <<row, ids, retired>>
  /\ \/ /\ row.id # form[e].id \/ row.revision # form[e].revision
        /\ form' = [form EXCEPT ![e] = NoForm]
        /\ UNCHANGED <<typed, home>>
     \/ /\ row.id = form[e].id /\ row.revision = form[e].revision
        /\ row.revision < MaxRevision
        /\ \E d \in Drafts :
             /\ Type(Types(d), d.protocol)
             /\ \E r \in Edited(row, d, typed + 1) : form' = [form EXCEPT ![e].save = r]

(* (mutant: the update is not conditional on the revision) *)
Commit_Bug(e) ==
  /\ form[e].save # NoNode
  /\ form' = [form EXCEPT ![e] = NoForm]
  /\ IF row.id = form[e].id THEN Write(form[e].save) ELSE UNCHANGED <<row, retired>>
  /\ UNCHANGED <<ids, typed, home>>

(* The transaction of UpdateManual: UPDATE ... WHERE id = ? AND edit_revision = ?. *)
Commit(e) ==
  /\ form[e].save # NoNode
  /\ form' = [form EXCEPT ![e] = NoForm]
  /\ IF row.id = form[e].id /\ row.revision = form[e].revision
       THEN Write(form[e].save)
       ELSE UNCHANGED <<row, retired>>
  /\ UNCHANGED <<ids, typed, home>>

DeleteNode == /\ row # NoNode
              /\ Write(NoNode)
              /\ UNCHANGED <<ids, form, typed, home>>

FormNext == \/ \E p \in Protocols : ImportURIs(p) \/ \E c \in Choices : CreateManual(p, c)
            \/ \E e \in Editors : Open(e) \/ Prepare(e) \/ Commit(e)
            \/ DeleteNode

FormSpec == FormInit /\ [][FormNext]_formVars

-----------------------------------------------------------------------------
NodeRows == [id : 1..MaxNodes, revision : 1..MaxRevision, protocol : Protocols,
             params : [Fields -> {Absent, Blank} \cup Values],
             state : SUBSET ExtensionScopes,
             ext : [scope : ExtensionScopes, payload : Values] \cup {NoExtension}]

(* FormTypeOK: the row and what the forms hold are what the code stores; a row
   has only parameters its protocol declares and always a password, and a
   revision never passes the bound. *)
FormTypeOK == /\ row \in NodeRows \cup {NoNode}
              /\ row # NoNode => /\ validateKnownTopLevel(row.protocol, row.params)
                                 /\ row.params["password"] \notin {Absent, Blank}
              /\ ids \in 0..MaxNodes
              /\ form \in [Editors -> [id : 0..MaxNodes, revision : 0..MaxRevision, save : NodeRows \cup {NoNode}]]
              /\ typed \in 0..MaxTyped
              /\ home \in [Values -> Protocols \cup {"none"}]
              /\ retired \subseteq 1..typed

(* NothingRevives: a credential, parameter or extension payload that a save
   reset, cleared or replaced is never stored again, whatever another editor
   had opened or prepared before (UpdateManual's revision check). *)
NothingRevives == Stored(row) \cap retired = {}

(* ValuesKeepTheirProtocol: a value typed for one protocol is never stored in
   a node of another, also where both name its path alike (the scope forced
   by a change of protocol, node.go:468-471). *)
ValuesKeepTheirProtocol == \A x \in Stored(row) : home[x] = row.protocol

(* BranchesFit: the stored state is the one the stored parameters select, the
   parameters of a switched-off feature are gone, and the extension belongs
   to a branch that is active. *)
BranchesFit ==
  row # NoNode => /\ row.state = ActiveScopes(row.protocol, row.params)
                  /\ "smux" \notin row.state => row.params["smux-opts"] = Absent
                  /\ row.ext.scope \in row.state \cup {"none"}

(* RowIsWhole: whatever branches editors switch and however their saves
   interleave, the row is one configuration: its state, parameters and
   extension belong together and to its protocol. *)
RowIsWhole == ValuesKeepTheirProtocol /\ BranchesFit
=============================================================================
