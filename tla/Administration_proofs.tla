------------------------ MODULE Administration_proofs ------------------------
(***************************************************************************)
(* Proofs about the form of a manual node, for any number of editors,      *)
(* values, saves and nodes, and about the resources and what is downloaded *)
(* of them, for any number of rows, versions, requests and downloads.      *)
(***************************************************************************)
EXTENDS NodeForm, Resources, FiniteSetTheorems, TLAPS

(***************************************************************************)
(* The form of a node.                                                     *)
(***************************************************************************)

(* A configuration whose parts belong together, when n values were typed  *)
(* for the protocols h names.                                              *)
Whole(r, n, h) ==
  r # NoNode =>
    /\ validateKnownTopLevel(r.protocol, r.params)
    /\ r.params["password"] \notin {Absent, Blank}
    /\ r.state = ActiveScopes(r.protocol, r.params)
    /\ "smux" \notin r.state => r.params["smux-opts"] = Absent
    /\ r.ext.scope \in r.state \cup {"none"}
    /\ Stored(r) \subseteq 1..n
    /\ \A x \in Stored(r) : h[x] = r.protocol

WholeInv == Whole(row, typed, home) /\ \A e \in Editors : Whole(form[e].save, typed, home)

Current(e) == row.id = form[e].id /\ row.revision = form[e].revision

(* A form is of a node there was, at a revision it had; what was prepared  *)
(* follows that revision and, while it may be committed, revives nothing.  *)
FormInv ==
  /\ row.id <= ids
  /\ \A e \in Editors :
       /\ form[e].id <= ids /\ (form[e].id = 0 => form[e] = NoForm)
       /\ row.id = form[e].id => form[e].revision <= row.revision
       /\ form[e].save # NoNode =>
            /\ form[e].save.id = form[e].id
            /\ form[e].save.revision = form[e].revision + 1
            /\ Current(e) => Stored(form[e].save) \cap retired = {}

FormIInv == FormTypeOK /\ WholeInv /\ FormInv /\ NothingRevives

-----------------------------------------------------------------------------
(* Parameters.                                                             *)

Val == {Absent, Blank} \cup Values
Params == [Fields -> Val]

LEMMA ValueShape ==
  ASSUME FormAssumption
  PROVE  /\ MaxTyped \in Nat \ {0} /\ MaxRevision \in Nat \ {0} /\ MaxNodes \in Nat \ {0}
         /\ Absent = 0 /\ Blank = -1 /\ On = 1 /\ {Absent, Blank, On} \subseteq Val
         /\ Values \subseteq Val /\ Values = 1..MaxTyped /\ Absent # Blank
BY DEF FormAssumption, Val, Values, Absent, Blank, On

LEMMA FieldShape ==
  /\ Fields = {"plugin", "smux", "network", "password", "plugin-password", "smux-opts", "ws-opts",
               "ws-path", "inner-password"}
  /\ Sensitive \subseteq Fields /\ Choices \subseteq Fields /\ Sensitive \cap Choices = {}
  /\ \A p \in Protocols : Schema(p) \subseteq Fields
  /\ \A p, q \in Protocols : p # q => Schema(p) \cap Schema(q) = {"password"}
BY DEF Fields, Sensitive, Choices, Schema, Protocols

(* All values but the choices are among A.                                 *)
Within(v, A) == \A f \in Fields \ Choices : v[f] \in A

LEMMA Cleaned ==
  ASSUME FormAssumption, NEW v \in Params
  PROVE  /\ cleanDisabledFeatures(v) \in Params
         /\ \A f \in Fields : cleanDisabledFeatures(v)[f] \in {v[f], Absent}
         /\ \A f \in Fields \ {"smux-opts"} : cleanDisabledFeatures(v)[f] = v[f]
         /\ v["smux"] # On => cleanDisabledFeatures(v)["smux-opts"] = Absent
BY ValueShape, FieldShape DEF cleanDisabledFeatures, Params

LEMMA Normalised ==
  ASSUME FormAssumption, NEW v \in Params, NEW p \in Protocols
  PROVE  /\ NormalizeProtocolJSON(p, v) \in Params
         /\ \A f \in Fields \ {"ws-opts", "ws-path"} : NormalizeProtocolJSON(p, v)[f] = v[f]
         /\ NormalizeProtocolJSON(p, v)["ws-opts"] \in {v["ws-opts"], v["ws-path"]}
         /\ NormalizeProtocolJSON(p, v)["ws-path"] \in {v["ws-path"], Absent}
         /\ v["ws-path"] = Absent =>
              \A f \in Fields : NormalizeProtocolJSON(p, v)[f] = v[f]
<1>1. CASE p = "ss"
  BY <1>1 DEF NormalizeProtocolJSON
<1>2. CASE p # "ss"
  <2> DEFINE x == IF v["ws-opts"] = Absent THEN v["ws-path"] ELSE v["ws-opts"]
             a == [v EXCEPT !["ws-opts"] = x]
             b == [a EXCEPT !["ws-path"] = Absent]
  <2>1. NormalizeProtocolJSON(p, v) = b
    BY <1>2, FieldShape DEF NormalizeProtocolJSON, Params
  <2>2. x \in {v["ws-opts"], v["ws-path"]} /\ x \in Val /\ (v["ws-path"] = Absent => x = v["ws-opts"])
    BY FieldShape DEF Params
  <2> HIDE DEF x
  <2>3. a \in Params /\ a["ws-opts"] = x /\ \A f \in Fields \ {"ws-opts"} : a[f] = v[f]
    BY <2>2, FieldShape DEF Params
  <2> HIDE DEF a
  <2>4. b \in Params /\ b["ws-path"] = Absent /\ \A f \in Fields \ {"ws-path"} : b[f] = a[f]
    BY <2>3, ValueShape, FieldShape DEF Params
  <2> QED
    BY <2>1, <2>2, <2>3, <2>4, FieldShape
<1> QED
  BY <1>1, <1>2

LEMMA CleanedWithin ==
  ASSUME FormAssumption, NEW v \in Params, NEW A, Within(v, A), Absent \in A
  PROVE  Within(cleanDisabledFeatures(v), A)
BY Cleaned DEF Within

LEMMA NormalisedWithin ==
  ASSUME FormAssumption, NEW v \in Params, NEW p \in Protocols, NEW A, Within(v, A), Absent \in A
  PROVE  Within(NormalizeProtocolJSON(p, v), A)
<1>1. {"ws-opts", "ws-path"} \subseteq Fields \ Choices
  BY DEF Fields, Choices
<1> QED
  BY <1>1, Normalised DEF Within

LEMMA Merged ==
  ASSUME FormAssumption, NEW p \in Protocols, NEW old \in Params, NEW incoming \in Params, NEW resets
  PROVE  LET m == mergeProtocolJSON(p, old, incoming, resets) IN
         /\ m \in Params
         /\ \A f \in Fields \ Schema(p) : m[f] = Absent
         /\ \A f \in Fields : \/ m[f] \in {Absent, incoming[f]}
                              \/ m[f] = old[f] /\ ~\E s \in resets : f \in ResetBy(s)
<1> DEFINE c == cleanDisabledFeatures(old)
<1>1. c \in Params /\ \A f \in Fields : c[f] \in {old[f], Absent}
  BY Cleaned
<1> HIDE DEF c
<1>2. \A f \in Fields : incoming[f] \in Val /\ c[f] \in Val /\ Absent \in Val
  BY <1>1, ValueShape DEF Params
<1>3. mergeProtocolJSON(p, old, incoming, resets) =
        [f \in Fields |->
           IF f \notin Schema(p) THEN Absent
           ELSE IF incoming[f] # Absent THEN incoming[f]
           ELSE IF \E s \in resets : f \in ResetBy(s) THEN Absent
           ELSE c[f]]
  BY DEF mergeProtocolJSON, c
<1> QED
  BY <1>1, <1>2, <1>3 DEF Params

LEMMA Restored ==
  ASSUME FormAssumption, NEW p \in Protocols, NEW old \in Params, NEW v \in Params, NEW resets, NEW d
  PROVE  LET m == mergeSensitiveWithOps(p, old, v, resets, d) IN
         /\ m \in Params
         /\ \A f \in Fields \ Sensitive : m[f] = v[f]
         /\ \A f \in Fields \ Schema(p) : m[f] = v[f]
         /\ \A f \in Fields : \/ m[f] \in {Absent, v[f]}
                              \/ m[f] = old[f] /\ ~\E s \in resets : f \in ResetBy(s)
<1> DEFINE off == {f \in {"smux"} \cap Schema(p) : v[f] # On}
           reset(f) == \E s \in resets \cup off : f \in ResetBy(s)
           op(f) == IF d.touch = f THEN d.op ELSE "none"
           kept(f) == IF reset(f) THEN Absent ELSE IF old[f] # Absent THEN old[f] ELSE v[f]
           merged(f) == IF ~reset(f) /\ old[f] # Absent /\ v[f] \in {Absent, Blank} THEN old[f] ELSE v[f]
           made(f) == IF f \notin Sensitive \cap Schema(p) THEN v[f]
                      ELSE IF op(f) = "clear" THEN Absent
                      ELSE IF op(f) = "keep" THEN kept(f)
                      ELSE merged(f)
<1>1. mergeSensitiveWithOps(p, old, v, resets, d) = [f \in Fields |-> made(f)]
  BY DEF mergeSensitiveWithOps
<1>2. \A f \in Fields : v[f] \in Val /\ old[f] \in Val /\ Absent \in Val
  BY ValueShape DEF Params
<1>3. ASSUME NEW f \in Fields
      PROVE  /\ made(f) \in {Absent, v[f]} \/ (made(f) = old[f] /\ ~reset(f))
             /\ f \notin Sensitive \/ f \notin Schema(p) => made(f) = v[f]
  OBVIOUS
<1>4. \A f \in Fields : ~reset(f) => ~\E s \in resets : f \in ResetBy(s)
  OBVIOUS
<1> HIDE DEF made, reset
<1>5. \A f \in Fields : made(f) \in Val
  BY <1>2, <1>3
<1> QED
  BY <1>1, <1>3, <1>4, <1>5 DEF Params

-----------------------------------------------------------------------------
(* Drafts, and what a save makes of a row.                                 *)

LEMMA DraftShape ==
  ASSUME NEW d \in Drafts
  PROVE  /\ d.protocol \in Protocols /\ d.whole \in BOOLEAN /\ d.change.touch \in Fields
         /\ d.change.value \in {"none", "blank", "on", "new"}
         /\ d.change.value = "on" => d.change.touch \in Choices
         /\ d.change.value = "new" => d.change.touch \notin Choices
         /\ d.ext \in ExtensionOps
<1>1. PICK p \in Protocols :
        \/ d \in [change : {c \in Touches : c.touch \in Schema(p) \cup {"ws-path"}}, ext : {NoOp},
                  whole : BOOLEAN, protocol : {p}, resets : Resets]
        \/ d \in [change : {Untouched}, ext : ExtensionOps, whole : {TRUE}, protocol : {p}, resets : Resets]
  BY DEF Drafts
<1>2. d.protocol \in Protocols /\ d.whole \in BOOLEAN /\ d.change \in Touches \cup {Untouched}
      /\ d.ext \in ExtensionOps
  BY <1>1 DEF ExtensionOps
<1>3. ASSUME NEW c \in Touches
      PROVE  /\ c.touch \in Fields /\ c.value \in {"none", "blank", "on", "new"}
             /\ c.value = "on" => c.touch \in Choices
             /\ c.value = "new" => c.touch \notin Choices
  BY FieldShape DEF Touches
<1>4. Untouched.touch \in Fields /\ Untouched.value = "none"
  BY FieldShape DEF Untouched
<1> QED
  BY <1>2, <1>3, <1>4

(* What the parts of a save may come from.                                 *)
Carried(r, d) == IF r.protocol = d.protocol THEN Stored(r) ELSE {}
TypedValue(d, t) == IF Types(d) THEN {t} ELSE {}
Sources(r, d, t) == {Absent, Blank} \cup Carried(r, d) \cup TypedValue(d, t)

LEMMA OldValues ==
  ASSUME NEW r \in NodeRows, Whole(r, typed, home), NEW f \in Fields \ Choices
  PROVE  r.params[f] \in Stored(r) \cup {Absent, Blank}
BY DEF Stored, NoNode, NodeRows

LEMMA Shown ==
  ASSUME FormAssumption, NEW r \in NodeRows
  PROVE  /\ redactSensitive(r) \in Params
         /\ \A f \in Fields \ Choices : redactSensitive(r)[f] \in {Absent, Blank, r.params[f]}
         /\ \A f \in Sensitive : redactSensitive(r)[f] \in {Absent, Blank}
<1> DEFINE c == cleanDisabledFeatures(r.params)
<1>1. r.params \in Params
  BY DEF NodeRows, Params, Val
<1>2. c \in Params /\ \A f \in Fields : c[f] \in {r.params[f], Absent}
  BY <1>1, Cleaned
<1> HIDE DEF c
<1>3. \A f \in Fields : redactSensitive(r)[f] =
        IF f \in Sensitive /\ r.params[f] # Absent THEN Blank ELSE c[f]
  BY DEF redactSensitive, c
<1>4. redactSensitive(r) = [f \in Fields |-> redactSensitive(r)[f]]
  BY DEF redactSensitive
<1>5. \A f \in Fields : redactSensitive(r)[f] \in Val
  BY <1>2, <1>3, ValueShape DEF Params
<1> QED
  BY <1>2, <1>3, <1>4, <1>5, FieldShape DEF Params

LEMMA SubmittedWithin ==
  ASSUME FormAssumption, NEW r \in NodeRows, Whole(r, typed, home), NEW d \in Drafts, NEW t \in Nat,
         Types(d) => t \in Values
  PROVE  Submitted(r, d, t) \in Params /\ Within(Submitted(r, d, t), Sources(r, d, t))
<1> DEFINE shown == redactSensitive(r)
           base == [f \in Fields |-> IF d.whole /\ f \in Schema(d.protocol) THEN shown[f] ELSE Absent]
           value == [none |-> base[d.change.touch], blank |-> Blank, on |-> On, new |-> t]
           x == value[d.change.value]
           A == Sources(r, d, t)
<1>1. /\ shown \in Params
      /\ \A f \in Fields \ Choices : shown[f] \in {Absent, Blank, r.params[f]}
      /\ \A f \in Sensitive : shown[f] \in {Absent, Blank}
  BY Shown
<1>2. /\ d.protocol \in Protocols /\ d.change.touch \in Fields
      /\ d.change.value \in {"none", "blank", "on", "new"}
      /\ d.change.value = "on" => d.change.touch \in Choices
      /\ d.change.value = "new" => d.change.touch \notin Choices
  BY DraftShape
<1>3. {Absent, Blank} \subseteq A
  BY DEF Sources
<1>4. ASSUME NEW f \in Fields \ Choices, f \in Schema(d.protocol) PROVE shown[f] \in A
  <2>1. CASE f \in Sensitive
    BY <1>1, <1>3, <2>1
  <2>2. CASE f \notin Sensitive /\ r.protocol # d.protocol
    <3>1. r.protocol \in Protocols /\ r # NoNode
      BY DEF NodeRows, NoNode
    <3>2. f # "password"
      BY <2>2 DEF Sensitive
    <3>3. f \notin Schema(r.protocol)
      BY <1>2, <1>4, <2>2, <3>1, <3>2, FieldShape
    <3>4. r.params[f] = Absent
      BY <3>1, <3>3 DEF Whole, validateKnownTopLevel
    <3> QED
      BY <1>1, <1>3, <3>4
  <2>3. CASE r.protocol = d.protocol
    <3>1. r.params[f] \in A
      BY <2>3, OldValues DEF Sources, Carried
    <3> QED
      BY <1>1, <1>3, <3>1
  <2> QED
    BY <2>1, <2>2, <2>3
<1>5. \A f \in Fields : shown[f] \in Val
  BY <1>1 DEF Params
<1> HIDE DEF shown
<1>6. base \in Params /\ Within(base, A)
  BY <1>3, <1>4, <1>5, ValueShape DEF Params, Within
<1>7. base[d.change.touch] \in Val /\ (d.change.touch \notin Choices => base[d.change.touch] \in A)
  BY <1>2, <1>6 DEF Params, Within
<1> HIDE DEF base
<1>8. x \in Val /\ (d.change.touch \notin Choices => x \in A)
  <2>1. CASE d.change.value = "none"
    BY <1>7, <2>1
  <2>2. CASE d.change.value = "blank"
    BY <1>3, <2>2, ValueShape
  <2>3. CASE d.change.value = "on"
    BY <1>2, <2>3, ValueShape
  <2>4. CASE d.change.value = "new"
    <3>1. Types(d)
      BY <2>4 DEF Types
    <3>2. t \in A /\ t \in Val
      BY <3>1, ValueShape DEF Sources, TypedValue
    <3> QED
      BY <2>4, <3>2
  <2> QED
    BY <1>2, <2>1, <2>2, <2>3, <2>4
<1> HIDE DEF x
<1>9. Submitted(r, d, t) = [base EXCEPT ![d.change.touch] = x]
  BY DEF Submitted, base, shown, x
<1> QED
  BY <1>2, <1>6, <1>8, <1>9 DEF Params, Within

(* A save that changes the protocol takes nothing from the row.            *)
LEMMA OldOnlyHere ==
  ASSUME FormAssumption, NEW r \in NodeRows, Whole(r, typed, home), NEW d \in Drafts, NEW t,
         NEW f \in Fields \ Choices, ~\E s \in ResetScopes(r, d) : f \in ResetBy(s)
  PROVE  r.params[f] \in Sources(r, d, t)
<1>1. r.protocol = d.protocol
  BY DEF ResetScopes, ResetBy
<1> QED
  BY <1>1, OldValues DEF Sources, Carried

LEMMA ActiveAlike ==
  ASSUME NEW p \in Protocols, NEW v, NEW u, \A c \in Choices : v[c] = u[c]
  PROVE  ActiveScopes(p, v) = ActiveScopes(p, u) /\ ActiveScopes(p, v) \in SUBSET ExtensionScopes
BY DEF ActiveScopes, Choices, ExtensionScopes, Schema

LEMMA ExtensionAfter ==
  ASSUME FormAssumption, NEW r \in NodeRows, NEW d \in Drafts, NEW t \in Nat, Types(d) => t \in Values,
         NEW active \in SUBSET ExtensionScopes,
         NEW x \in prepareExtensionOps(r.ext, active, ResetScopes(r, d), d.ext, t)
  PROVE  /\ x \in [scope : ExtensionScopes, payload : Values] \cup {NoExtension}
         /\ x.scope \in active \cup {"none"}
         /\ x.payload \in Sources(r, d, t)
<1> DEFINE left == CarriedOver(r.ext, active, ResetScopes(r, d))
<1>1. /\ x \in [scope : ExtensionScopes, payload : Values] \cup {NoExtension}
      /\ \/ x = left
         \/ x = NoExtension
         \/ /\ d.ext.kind \in {"replace", "add"} /\ d.ext.scope \in active
            /\ x = [scope |-> d.ext.scope, payload |-> t]
  BY DEF prepareExtensionOps
<1>2. NoExtension.scope = "none" /\ NoExtension.payload \in Sources(r, d, t)
  BY DEF NoExtension, Sources
<1>3. CASE x = left /\ x # NoExtension
  <2>1. /\ left = r.ext /\ r.ext.scope \in active /\ "protocol" \notin ResetScopes(r, d)
    BY <1>3 DEF CarriedOver
  <2>2. r.protocol = d.protocol
    BY <2>1 DEF ResetScopes
  <2>3. r.ext.payload \in Stored(r) \cup {Absent, Blank}
    BY DEF Stored, NodeRows, NoNode
  <2> QED
    BY <1>1, <1>3, <2>1, <2>2, <2>3 DEF Sources, Carried
<1>4. CASE d.ext.kind \in {"replace", "add"} /\ d.ext.scope \in active
           /\ x = [scope |-> d.ext.scope, payload |-> t]
  <2>1. t \in Sources(r, d, t)
    BY <1>4 DEF Types, Sources, TypedValue
  <2> QED
    BY <1>1, <1>4, <2>1
<1> QED
  BY <1>1, <1>2, <1>3, <1>4

(* The row a save makes is one configuration, made of what was typed and,  *)
(* under the same protocol, of what was stored.                            *)
LEMMA EditedRow ==
  ASSUME FormAssumption, NEW r \in NodeRows, Whole(r, typed, home), r.revision < MaxRevision,
         NEW d \in Drafts, NEW t \in Nat, Types(d) => t \in Values, NEW s \in Edited(r, d, t)
  PROVE  /\ s \in NodeRows /\ s.id = r.id /\ s.revision = r.revision + 1 /\ s.protocol = d.protocol
         /\ validateKnownTopLevel(s.protocol, s.params)
         /\ s.params["password"] \notin {Absent, Blank}
         /\ s.state = ActiveScopes(s.protocol, s.params)
         /\ "smux" \notin s.state => s.params["smux-opts"] = Absent
         /\ s.ext.scope \in s.state \cup {"none"}
         /\ Stored(s) \subseteq Carried(r, d) \cup TypedValue(d, t)
<1> DEFINE p == d.protocol
           A == Sources(r, d, t)
           resets == ResetScopes(r, d)
           given == Submitted(r, d, t)
           incoming == NormalizeProtocolJSON(p, given)
           m == mergeProtocolJSON(p, r.params, incoming, resets)
           n == NormalizeProtocolJSON(p, m)
           merged == cleanDisabledFeatures(n)
           final == mergeSensitiveWithOps(p, r.params, merged, resets, d.change)
           params == cleanDisabledFeatures(final)
           active == ActiveScopes(p, merged)
<1>1. p \in Protocols /\ Absent \in A /\ r.params \in Params
  BY DraftShape DEF Sources, NodeRows, Params, Val
<1>2. given \in Params /\ Within(given, A)
  BY SubmittedWithin
<1>3. incoming \in Params /\ Within(incoming, A)
  BY <1>1, <1>2, Normalised, NormalisedWithin
<1> HIDE DEF given, incoming
<1>4. /\ m \in Params /\ \A f \in Fields \ Schema(p) : m[f] = Absent
      /\ Within(m, A)
  <2>1. /\ m \in Params /\ \A f \in Fields \ Schema(p) : m[f] = Absent
        /\ \A f \in Fields : \/ m[f] \in {Absent, incoming[f]}
                             \/ m[f] = r.params[f] /\ ~\E s1 \in resets : f \in ResetBy(s1)
    BY <1>1, <1>3, Merged
  <2>2. ASSUME NEW f \in Fields \ Choices PROVE m[f] \in A
    BY <1>1, <1>3, <2>1, OldOnlyHere DEF Within
  <2> QED
    BY <2>1, <2>2 DEF Within
<1> HIDE DEF m
<1>5. n \in Params /\ Within(n, A) /\ \A f \in Fields : n[f] = m[f]
  <2>1. "ws-path" \in Fields /\ "ws-path" \notin Schema(p)
    BY <1>1 DEF Fields, Schema
  <2> QED
    BY <1>1, <1>4, <2>1, Normalised, NormalisedWithin
<1> HIDE DEF n
<1>6. /\ merged \in Params /\ Within(merged, A)
      /\ \A f \in Fields \ Schema(p) : merged[f] = Absent
  BY <1>1, <1>4, <1>5, Cleaned, CleanedWithin
<1> HIDE DEF merged
<1>7. /\ final \in Params /\ \A f \in Fields \ Schema(p) : final[f] = Absent
      /\ \A f \in Fields \ Sensitive : final[f] = merged[f]
      /\ Within(final, A)
  <2>1. /\ final \in Params
        /\ \A f \in Fields \ Sensitive : final[f] = merged[f]
        /\ \A f \in Fields \ Schema(p) : final[f] = merged[f]
        /\ \A f \in Fields : \/ final[f] \in {Absent, merged[f]}
                             \/ final[f] = r.params[f] /\ ~\E s1 \in resets : f \in ResetBy(s1)
    BY <1>1, <1>6, Restored
  <2>2. ASSUME NEW f \in Fields \ Choices PROVE final[f] \in A
    BY <1>1, <1>6, <2>1, OldOnlyHere DEF Within
  <2> QED
    BY <1>6, <2>1, <2>2 DEF Within
<1> HIDE DEF final
<1>8. /\ params \in Params /\ Within(params, A)
      /\ \A f \in Fields \ Schema(p) : params[f] = Absent
      /\ \A f \in Fields \ {"smux-opts"} : params[f] = final[f]
      /\ final["smux"] # On => params["smux-opts"] = Absent
  BY <1>1, <1>7, Cleaned, CleanedWithin
<1>9. PICK x \in prepareExtensionOps(r.ext, active, resets, d.ext, t) :
        s = [id |-> r.id, revision |-> r.revision + 1, protocol |-> p, params |-> params,
             state |-> active, ext |-> x]
  BY DEF Edited, final, merged, n, m, incoming, given
<1>10. final["password"] \notin {Absent, Blank}
  BY <1>9 DEF Edited, validateProtocolFields, final, merged, n, m, incoming, given
<1> HIDE DEF params
<1>11. active = ActiveScopes(p, params) /\ active \in SUBSET ExtensionScopes
  <2>1. \A c \in Choices : c \in Fields /\ c \notin Sensitive /\ c # "smux-opts"
    BY FieldShape DEF Choices
  <2>2. \A c \in Choices : params[c] = merged[c]
    BY <1>7, <1>8, <2>1
  <2> QED
    BY <1>1, <2>2, ActiveAlike
<1>12. "smux" \notin active => params["smux-opts"] = Absent
  <2>1. CASE p = "ss"
    <3>1. "smux" \in Choices \cap Schema(p) /\ "smux" \in Fields /\ "smux" \notin Sensitive
      BY <2>1 DEF Choices, Schema, Fields, Sensitive
    <3>2. "smux" \notin active => merged["smux"] # On
      BY <3>1 DEF ActiveScopes
    <3> QED
      BY <1>7, <1>8, <3>1, <3>2
  <2>2. CASE p # "ss"
    <3>1. "smux-opts" \in Fields \ Schema(p)
      BY <2>2 DEF Fields, Schema
    <3> QED
      BY <1>8, <3>1
  <2> QED
    BY <2>1, <2>2
<1> HIDE DEF active
<1>13. /\ x \in [scope : ExtensionScopes, payload : Values] \cup {NoExtension}
       /\ x.scope \in active \cup {"none"} /\ x.payload \in A
  BY <1>11, ExtensionAfter
<1>14. s \in NodeRows
  <2>1. r.id \in 1..MaxNodes /\ r.revision + 1 \in 1..MaxRevision
    BY ValueShape DEF NodeRows
  <2> QED
    BY <1>1, <1>8, <1>9, <1>11, <1>13, <2>1 DEF NodeRows, Params, Val
<1>15. Stored(s) \subseteq Carried(r, d) \cup TypedValue(d, t)
  <2>1. s # NoNode
    BY <1>9 DEF NoNode
  <2>2. Stored(s) = ({params[f] : f \in Fields \ Choices} \cup {x.payload}) \ {Absent, Blank}
    BY <1>9, <2>1 DEF Stored
  <2> QED
    BY <1>8, <1>13, <2>2 DEF Within, Sources
<1>16. validateKnownTopLevel(s.protocol, s.params)
  BY <1>8, <1>9 DEF validateKnownTopLevel
<1>17. s.params["password"] \notin {Absent, Blank}
  <2>1. "password" \in Fields \ {"smux-opts"}
    BY DEF Fields
  <2> QED
    BY <1>8, <1>9, <1>10, <2>1
<1> QED
  BY <1>9, <1>11, <1>12, <1>13, <1>14, <1>15, <1>16, <1>17

-----------------------------------------------------------------------------
(* The steps.                                                              *)

LEMMA RowShape ==
  ASSUME FormAssumption
  PROVE  /\ NoNode \notin NodeRows /\ NoNode.id = 0 /\ NoNode.revision = 0 /\ Stored(NoNode) = {}
         /\ NoForm.id = 0 /\ NoForm.revision = 0 /\ NoForm.save = NoNode
         /\ \A r \in NodeRows : /\ r.id \in 1..MaxNodes /\ r.revision \in 1..MaxRevision /\ r # NoNode
                                /\ r.protocol \in Protocols
BY DEF NoNode, NodeRows, Stored, NoForm

(* What Type adds to the values typed so far.                              *)
LEMMA Grown ==
  ASSUME FormAssumption, FormTypeOK, NEW b, NEW p \in Protocols, Type(b, p)
  PROVE  /\ typed' \in 0..MaxTyped /\ typed <= typed'
         /\ home' \in [Values -> Protocols \cup {"none"}]
         /\ \A x \in 1..typed : home'[x] = home[x]
         /\ b => typed' = typed + 1 /\ typed + 1 \in Values /\ home'[typed + 1] = p
<1>1. typed \in 0..MaxTyped /\ home \in [Values -> Protocols \cup {"none"}] /\ MaxTyped \in Nat
  BY ValueShape DEF FormTypeOK
<1>2. CASE b
  <2>1. typed < MaxTyped /\ typed' = typed + 1 /\ home' = [home EXCEPT ![typed + 1] = p]
    BY <1>2 DEF Type
  <2>2. typed + 1 \in Values /\ \A x \in 1..typed : x \in Values /\ x # typed + 1
    BY <1>1, <2>1 DEF Values
  <2> QED
    BY <1>1, <2>1, <2>2
<1>3. CASE ~b
  <2>1. typed' = typed /\ home' = home
    BY <1>3 DEF Type
  <2> QED
    BY <1>1, <1>3, <2>1
<1> QED
  BY <1>2, <1>3

LEMMA WholeGrows ==
  ASSUME NEW r, NEW n \in Nat, NEW h, Whole(r, n, h), NEW n2 \in Nat, n <= n2, NEW h2,
         \A x \in 1..n : h2[x] = h[x]
  PROVE  Whole(r, n2, h2)
<1>1. 1..n \subseteq 1..n2
  OBVIOUS
<1> QED
  BY <1>1 DEF Whole

(* A row newly written with the password t and the choice c.               *)
Given(p, c, t) == NormalizeProtocolJSON(p, [Nothing EXCEPT !["password"] = t, ![c] = On])
FreshNode(i, p, c, t) ==
  [id |-> i, revision |-> 1, protocol |-> p, params |-> cleanDisabledFeatures(Given(p, c, t)),
   state |-> ActiveScopes(p, cleanDisabledFeatures(Given(p, c, t))), ext |-> NoExtension]

LEMMA FreshNodeRow ==
  ASSUME FormAssumption, NEW p \in Protocols, NEW c \in Choices, NEW t \in Values, NEW i \in 1..MaxNodes,
         NEW h, h[t] = p,
         validateKnownTopLevel(p, cleanDisabledFeatures(Given(p, c, t))) \/ c \in Schema(p)
  PROVE  /\ ActiveScopes(p, Given(p, c, t)) = ActiveScopes(p, cleanDisabledFeatures(Given(p, c, t)))
         /\ FreshNode(i, p, c, t) \in NodeRows /\ Whole(FreshNode(i, p, c, t), t, h)
         /\ Stored(FreshNode(i, p, c, t)) = {t} /\ FreshNode(i, p, c, t).id = i
<1> DEFINE u == Given(p, c, t)
           v == cleanDisabledFeatures(u)
           r == [id |-> i, revision |-> 1, protocol |-> p, params |-> v,
                 state |-> ActiveScopes(p, v), ext |-> NoExtension]
<1>0. r = FreshNode(i, p, c, t)
  BY DEF FreshNode
<1> DEFINE a == [Nothing EXCEPT !["password"] = t]
           b == [a EXCEPT ![c] = On]
<1>1. /\ c \in Fields /\ c # "password" /\ {"password", "smux-opts", "ws-path"} \subseteq Fields \ Choices
      /\ "password" # "smux-opts" /\ "password" # "ws-path" /\ "password" \in Schema(p)
  BY DEF Fields, Choices, Schema
<1>2. /\ t \in Nat /\ t \in Val /\ t \notin {Absent, Blank} /\ On \in Val /\ Absent \in Val /\ t \in 1..t
  BY ValueShape
<1>3. Nothing \in Params /\ \A f \in Fields : Nothing[f] = Absent
  BY <1>2 DEF Nothing, Params
<1>4. a \in Params /\ a["password"] = t /\ \A f \in Fields \ {"password"} : a[f] = Absent
  BY <1>1, <1>2, <1>3 DEF Params
<1>5. [Nothing EXCEPT !["password"] = t, ![c] = On] = b
  BY <1>3 DEF Params
<1> HIDE DEF a
<1>6. /\ b \in Params /\ b["password"] = t /\ b[c] = On
      /\ \A f \in Fields \ {"password", c} : b[f] = Absent
  BY <1>1, <1>2, <1>4 DEF Params
<1> HIDE DEF b
<1>7. u \in Params /\ \A f \in Fields : u[f] = b[f]
  <2>1. b["ws-path"] = Absent
    BY <1>1, <1>6
  <2>2. u = NormalizeProtocolJSON(p, b)
    BY <1>5 DEF Given
  <2>3. /\ NormalizeProtocolJSON(p, b) \in Params
        /\ \A f \in Fields : NormalizeProtocolJSON(p, b)[f] = b[f]
    BY <1>6, <2>1, Normalised
  <2> QED
    BY <2>2, <2>3
<1> HIDE DEF u
<1>8. v \in Params /\ \A f \in Fields : v[f] = b[f]
  <2>1. b["smux-opts"] = Absent
    BY <1>1, <1>6
  <2> QED
    BY <1>7, <2>1, Cleaned
<1> HIDE DEF v
<1>9. ActiveScopes(p, u) = ActiveScopes(p, v) /\ ActiveScopes(p, v) \in SUBSET ExtensionScopes
  <2>1. \A x \in Choices : u[x] = v[x]
    BY <1>7, <1>8, FieldShape
  <2> QED
    BY <2>1, ActiveAlike
<1>10. validateKnownTopLevel(p, v)
  <2>1. CASE c \in Schema(p)
    BY <1>1, <1>6, <1>8, <2>1 DEF validateKnownTopLevel
  <2> QED
    BY <2>1 DEF v, u
<1>11. r \in NodeRows
  <2>1. 1 \in 1..MaxRevision /\ v \in [Fields -> {Absent, Blank} \cup Values]
    BY <1>8, ValueShape DEF Params, Val
  <2> QED
    BY <1>9, <2>1 DEF NodeRows
<1>12. Stored(r) = {t}
  <2>1. r # NoNode
    BY <1>11, RowShape
  <2>2. Stored(r) = ({v[f] : f \in Fields \ Choices} \cup {Absent}) \ {Absent, Blank}
    BY <2>1 DEF Stored, NoExtension
  <2>3. \A f \in Fields \ Choices : v[f] \in {t, Absent}
    BY <1>6, <1>8
  <2>4. v["password"] = t
    BY <1>1, <1>6, <1>8
  <2> QED
    BY <1>1, <1>2, <2>2, <2>3, <2>4
<1>13. Whole(r, t, h)
  BY <1>1, <1>2, <1>6, <1>8, <1>10, <1>12 DEF Whole, NoExtension
<1> QED
  BY <1>0, <1>9, <1>11, <1>12, <1>13 DEF v, u

(* A name that was free gets a row no form knows.                          *)
LEMMA Created ==
  ASSUME FormAssumption, FormIInv, row = NoNode, ids < MaxNodes, NEW p \in Protocols, Type(TRUE, p),
         NEW r \in NodeRows, r.id = ids + 1, Stored(r) = {typed + 1}, Whole(r, typed + 1, home'), Write(r),
         ids' = ids + 1, UNCHANGED form
  PROVE  FormIInv'
<1>1. FormTypeOK /\ WholeInv /\ FormInv /\ NothingRevives
  BY DEF FormIInv
<1>2. /\ typed' = typed + 1 /\ typed' \in 0..MaxTyped /\ typed \in 0..MaxTyped
      /\ home' \in [Values -> Protocols \cup {"none"}] /\ \A x \in 1..typed : home'[x] = home[x]
  <2>1. \E b \in BOOLEAN : b /\ Type(b, p)
    OBVIOUS
  <2> QED
    BY <1>1, <2>1, Grown DEF FormTypeOK
<1>3. row' = r /\ retired' = retired
  BY RowShape DEF Write
<1>4. FormTypeOK'
  <2>1. retired \subseteq 1..typed'
    BY <1>1, <1>2 DEF FormTypeOK
  <2>2. ids' \in 0..MaxNodes
    BY <1>1, ValueShape DEF FormTypeOK
  <2>3. validateKnownTopLevel(r.protocol, r.params) /\ r.params["password"] \notin {Absent, Blank}
    BY RowShape DEF Whole
  <2> QED
    BY <1>1, <1>2, <1>3, <2>1, <2>2, <2>3 DEF FormTypeOK
<1>5. WholeInv'
  <2>1. \A e \in Editors : Whole(form[e].save, typed', home')
    BY <1>1, <1>2, WholeGrows DEF WholeInv
  <2> QED
    BY <1>2, <1>3, <2>1 DEF WholeInv
<1>6. FormInv'
  <2>1. ids \in Nat /\ \A e \in Editors : form[e].id \in Nat
    BY <1>1, ValueShape DEF FormTypeOK
  <2>2. row'.id = ids + 1
    BY <1>3
  <2>3. \A e \in Editors : form[e].id <= ids
    BY <1>1 DEF FormInv
  <2> QED
    BY <1>1, <2>1, <2>2, <2>3 DEF FormInv, Current
<1>7. NothingRevives'
  <2>1. typed + 1 \notin retired
    BY <1>1, <1>2 DEF FormTypeOK
  <2> QED
    BY <1>3, <2>1 DEF NothingRevives
<1> QED
  BY <1>4, <1>5, <1>6, <1>7 DEF FormIInv

LEMMA CreateManualStep ==
  ASSUME FormAssumption, FormIInv, NEW p \in Protocols, NEW c \in Choices, CreateManual(p, c)
  PROVE  FormIInv'
<1>0. PICK t, i, r : t = typed + 1 /\ i = ids + 1 /\ r = FreshNode(i, p, c, t)
  OBVIOUS
<1>1. /\ row = NoNode /\ ids < MaxNodes /\ Type(TRUE, p) /\ Write(r)
      /\ validateKnownTopLevel(p, cleanDisabledFeatures(Given(p, c, t)))
      /\ ids' = ids + 1 /\ UNCHANGED form
  BY <1>0 DEF CreateManual, FreshNode, Given
<1>2. FormTypeOK
  BY DEF FormIInv
<1>3. t \in Values /\ home'[t] = p
  BY <1>0, <1>1, <1>2, ValueShape DEF Type, FormTypeOK, Values
<1>4. i \in 1..MaxNodes
  BY <1>0, <1>1, <1>2, ValueShape DEF FormTypeOK
<1>5. r \in NodeRows /\ Whole(r, t, home') /\ Stored(r) = {t} /\ r.id = i
  BY <1>0, <1>1, <1>3, <1>4, FreshNodeRow
<1> QED
  BY <1>0, <1>1, <1>5, Created

LEMMA ImportURIsStep ==
  ASSUME FormAssumption, FormIInv, NEW p \in Protocols, ImportURIs(p)
  PROVE  FormIInv'
<1>1. PICK c : c \in Choices /\ c \in Schema(p) /\ c = IF p = "ss" THEN "plugin" ELSE "network"
  <2>1. LET c == IF p = "ss" THEN "plugin" ELSE "network" IN c \in Choices /\ c \in Schema(p)
    BY DEF Choices, Schema, Protocols
  <2> QED
    BY <2>1
<1>2. PICK t, i, r : t = typed + 1 /\ i = ids + 1 /\ r = FreshNode(i, p, c, t)
  OBVIOUS
<1>3. /\ row = NoNode /\ ids < MaxNodes /\ Type(TRUE, p) /\ ids' = ids + 1 /\ UNCHANGED form
      /\ Write([id |-> i, revision |-> 1, protocol |-> p,
                params |-> cleanDisabledFeatures(Given(p, c, t)),
                state |-> ActiveScopes(p, Given(p, c, t)), ext |-> NoExtension])
  BY <1>1, <1>2 DEF ImportURIs, Given
<1>4. FormTypeOK
  BY DEF FormIInv
<1>5. t \in Values /\ home'[t] = p
  BY <1>2, <1>3, <1>4, ValueShape DEF Type, FormTypeOK, Values
<1>6. i \in 1..MaxNodes
  BY <1>2, <1>3, <1>4, ValueShape DEF FormTypeOK
<1>7. /\ ActiveScopes(p, Given(p, c, t)) = ActiveScopes(p, cleanDisabledFeatures(Given(p, c, t)))
      /\ FreshNode(i, p, c, t) \in NodeRows /\ Whole(FreshNode(i, p, c, t), t, home')
      /\ Stored(FreshNode(i, p, c, t)) = {t} /\ FreshNode(i, p, c, t).id = i
  BY <1>1, <1>5, <1>6, FreshNodeRow
<1>8. Write(r)
  BY <1>2, <1>3, <1>7 DEF FreshNode
<1> QED
  BY <1>2, <1>3, <1>7, <1>8, Created

LEMMA RowNumbers ==
  ASSUME FormAssumption, FormTypeOK
  PROVE  /\ row.id \in Nat /\ row.revision \in Nat /\ (row = NoNode <=> row.id = 0)
         /\ ids \in Nat /\ typed \in Nat
         /\ \A e \in Editors : form[e].id \in Nat /\ form[e].revision \in Nat
         /\ \A e \in Editors : form[e].save # NoNode => form[e].save \in NodeRows
<1>1. MaxNodes \in Nat /\ MaxRevision \in Nat /\ MaxTyped \in Nat
  BY ValueShape
<1>2. row \in NodeRows \cup {NoNode}
  BY DEF FormTypeOK
<1>3. row.id \in Nat /\ row.revision \in Nat /\ (row = NoNode <=> row.id = 0)
  BY <1>1, <1>2, RowShape
<1>4. ids \in Nat /\ typed \in Nat
  BY <1>1 DEF FormTypeOK
<1>5. /\ \A e \in Editors : form[e].id \in Nat /\ form[e].revision \in Nat
      /\ \A e \in Editors : form[e].save # NoNode => form[e].save \in NodeRows
  BY <1>1 DEF FormTypeOK
<1> QED
  BY <1>3, <1>4, <1>5

(* One form changes and nothing else does.                                 *)
LEMMA FormsOnly ==
  ASSUME FormAssumption, FormIInv, UNCHANGED <<row, ids, retired>>, NEW e \in Editors,
         NEW g \in [id : 0..MaxNodes, revision : 0..MaxRevision, save : NodeRows \cup {NoNode}],
         form' = [form EXCEPT ![e] = g],
         typed <= typed', typed' \in 0..MaxTyped, home' \in [Values -> Protocols \cup {"none"}],
         \A x \in 1..typed : home'[x] = home[x],
         g.id <= ids, g.id = 0 => g = NoForm, row.id = g.id => g.revision <= row.revision,
         Whole(g.save, typed', home'),
         g.save # NoNode => /\ g.save.id = g.id /\ g.save.revision = g.revision + 1
                            /\ Stored(g.save) \cap retired = {}
  PROVE  FormIInv'
<1>1. FormTypeOK /\ WholeInv /\ FormInv /\ NothingRevives
  BY DEF FormIInv
<1>2. form'[e] = g /\ \A e2 \in Editors \ {e} : form'[e2] = form[e2]
  BY <1>1 DEF FormTypeOK
<1>3. typed \in Nat /\ typed' \in Nat
  BY <1>1, RowNumbers, ValueShape
<1>4. FormTypeOK'
  <2>1. retired \subseteq 1..typed'
    BY <1>1, <1>3 DEF FormTypeOK
  <2> QED
    BY <1>1, <2>1 DEF FormTypeOK
<1>5. WholeInv'
  <2>1. Whole(row, typed', home') /\ \A e2 \in Editors : Whole(form[e2].save, typed', home')
    BY <1>1, <1>3, WholeGrows DEF WholeInv
  <2> QED
    BY <1>2, <2>1 DEF WholeInv
<1>6. FormInv'
  <2> SUFFICES ASSUME NEW e2 \in Editors
               PROVE  /\ form'[e2].id <= ids /\ (form'[e2].id = 0 => form'[e2] = NoForm)
                      /\ row.id = form'[e2].id => form'[e2].revision <= row.revision
                      /\ form'[e2].save # NoNode =>
                           /\ form'[e2].save.id = form'[e2].id
                           /\ form'[e2].save.revision = form'[e2].revision + 1
                           /\ (row.id = form'[e2].id /\ row.revision = form'[e2].revision)
                                => Stored(form'[e2].save) \cap retired = {}
    BY <1>1 DEF FormInv, Current
  <2>1. CASE e2 = e
    BY <1>2, <2>1
  <2>2. CASE e2 # e
    BY <1>1, <1>2, <2>2 DEF FormInv, Current
  <2> QED
    BY <2>1, <2>2
<1>7. NothingRevives'
  BY <1>1 DEF NothingRevives
<1> QED
  BY <1>4, <1>5, <1>6, <1>7 DEF FormIInv

LEMMA NoFormShape ==
  ASSUME FormAssumption, NEW n, NEW h
  PROVE  /\ NoForm \in [id : 0..MaxNodes, revision : 0..MaxRevision, save : NodeRows \cup {NoNode}]
         /\ Whole(NoNode, n, h)
BY ValueShape DEF NoForm, Whole

LEMMA OpenStep ==
  ASSUME FormAssumption, FormIInv, NEW e \in Editors, Open(e)
  PROVE  FormIInv'
<1> PICK g : g = [id |-> row.id, revision |-> row.revision, save |-> NoNode]
  OBVIOUS
<1>1. row # NoNode /\ form' = [form EXCEPT ![e] = g] /\ UNCHANGED <<row, ids, typed, home, retired>>
  BY DEF Open
<1>2. FormTypeOK /\ FormInv
  BY DEF FormIInv
<1>3. row \in NodeRows /\ row.id \in 1..MaxNodes /\ row.revision \in 1..MaxRevision
  BY <1>1, <1>2, RowShape DEF FormTypeOK
<1>4. g \in [id : 0..MaxNodes, revision : 0..MaxRevision, save : NodeRows \cup {NoNode}]
  BY <1>3, ValueShape
<1>5. g.id <= ids /\ g.id # 0 /\ g.revision <= row.revision /\ g.save = NoNode
  BY <1>2, <1>3, ValueShape DEF FormInv
<1>6. Whole(g.save, typed', home')
  BY <1>5, NoFormShape
<1>7. /\ typed <= typed' /\ typed' \in 0..MaxTyped /\ home' \in [Values -> Protocols \cup {"none"}]
      /\ \A x \in 1..typed : home'[x] = home[x]
  BY <1>1, <1>2, ValueShape DEF FormTypeOK
<1> QED
  BY <1>1, <1>4, <1>5, <1>6, <1>7, FormsOnly

LEMMA PrepareStep ==
  ASSUME FormAssumption, FormIInv, NEW e \in Editors, Prepare(e)
  PROVE  FormIInv'
<1>1. FormTypeOK /\ WholeInv /\ FormInv /\ NothingRevives
  BY DEF FormIInv
<1>2. form[e].id # 0 /\ form[e].save = NoNode /\ UNCHANGED <<row, ids, retired>>
  BY DEF Prepare
<1>3. CASE form' = [form EXCEPT ![e] = NoForm] /\ UNCHANGED <<typed, home>>
  <2>1. /\ NoForm.id = 0 /\ NoForm.revision = 0 /\ NoForm.save = NoNode /\ row.revision \in Nat
        /\ NoForm \in [id : 0..MaxNodes, revision : 0..MaxRevision, save : NodeRows \cup {NoNode}]
        /\ Whole(NoForm.save, typed', home')
    BY <1>1, RowShape, RowNumbers, NoFormShape
  <2>2. /\ typed <= typed' /\ typed' \in 0..MaxTyped /\ home' \in [Values -> Protocols \cup {"none"}]
        /\ \A x \in 1..typed : home'[x] = home[x]
    BY <1>1, <1>3, ValueShape DEF FormTypeOK
  <2>3. NoForm.id <= ids /\ (row.id = NoForm.id => NoForm.revision <= row.revision)
    BY <1>1, <2>1, RowNumbers
  <2> QED
    BY <1>2, <1>3, <2>1, <2>2, <2>3, FormsOnly
<1>4. CASE /\ row.id = form[e].id /\ row.revision = form[e].revision /\ row.revision < MaxRevision
           /\ \E d \in Drafts :
                /\ Type(Types(d), d.protocol)
                /\ \E r \in Edited(row, d, typed + 1) : form' = [form EXCEPT ![e].save = r]
  <2> PICK d \in Drafts : /\ Type(Types(d), d.protocol)
                          /\ \E r \in Edited(row, d, typed + 1) : form' = [form EXCEPT ![e].save = r]
    BY <1>4
  <2>1. PICK r \in Edited(row, d, typed + 1) :
          Type(Types(d), d.protocol) /\ form' = [form EXCEPT ![e].save = r]
    OBVIOUS
  <2>2. /\ row.id # 0 /\ row \in NodeRows /\ Whole(row, typed, home) /\ typed + 1 \in Nat
    BY <1>1, <1>2, <1>4, RowShape, RowNumbers DEF FormTypeOK, WholeInv
  <2>3. d.protocol \in Protocols
    BY DraftShape
  <2>4. /\ typed' \in 0..MaxTyped /\ typed <= typed'
        /\ home' \in [Values -> Protocols \cup {"none"}]
        /\ \A x \in 1..typed : home'[x] = home[x]
        /\ Types(d) => typed' = typed + 1 /\ typed + 1 \in Values /\ home'[typed + 1] = d.protocol
    BY <1>1, <2>1, <2>3, Grown
  <2>5. /\ r \in NodeRows /\ r.id = row.id /\ r.revision = row.revision + 1 /\ r.protocol = d.protocol
        /\ validateKnownTopLevel(r.protocol, r.params)
        /\ r.params["password"] \notin {Absent, Blank}
        /\ r.state = ActiveScopes(r.protocol, r.params)
        /\ "smux" \notin r.state => r.params["smux-opts"] = Absent
        /\ r.ext.scope \in r.state \cup {"none"}
        /\ Stored(r) \subseteq Carried(row, d) \cup TypedValue(d, typed + 1)
    BY <1>4, <2>2, <2>4, EditedRow
  <2>6. ASSUME NEW x \in Stored(r)
        PROVE  x \in 1..typed' /\ home'[x] = r.protocol /\ x \notin retired
    <3>1. CASE x \in Carried(row, d)
      <4>1. x \in Stored(row) /\ row.protocol = d.protocol
        BY <3>1 DEF Carried
      <4>2. x \in 1..typed /\ home[x] = row.protocol
        BY <2>2, <4>1, RowShape DEF Whole
      <4>3. x \notin retired
        BY <1>1, <4>1 DEF NothingRevives
      <4> QED
        BY <1>1, <2>4, <2>5, <4>1, <4>2, <4>3, RowNumbers
    <3>2. CASE x \in TypedValue(d, typed + 1)
      <4>1. Types(d) /\ x = typed + 1
        BY <3>2 DEF TypedValue
      <4>2. x \notin 1..typed /\ x \in 1..typed'
        BY <1>1, <2>4, <4>1, RowNumbers
      <4> QED
        BY <1>1, <2>4, <2>5, <4>1, <4>2 DEF FormTypeOK
    <3> QED
      BY <2>5, <3>1, <3>2
  <2>7. Whole(r, typed', home') /\ Stored(r) \cap retired = {}
    BY <2>5, <2>6 DEF Whole
  <2> PICK g : g = [form[e] EXCEPT !.save = r]
    OBVIOUS
  <2>8. form[e] \in [id : 0..MaxNodes, revision : 0..MaxRevision, save : NodeRows \cup {NoNode}]
    BY <1>1 DEF FormTypeOK
  <2>9. /\ g \in [id : 0..MaxNodes, revision : 0..MaxRevision, save : NodeRows \cup {NoNode}]
        /\ g.id = form[e].id /\ g.revision = form[e].revision /\ g.save = r
    BY <2>5, <2>8
  <2>10. form' = [form EXCEPT ![e] = g]
    BY <1>1, <2>1 DEF FormTypeOK
  <2>11. g.id <= ids /\ g.id # 0 /\ (row.id = g.id => g.revision <= row.revision)
    BY <1>1, <1>2, <2>9 DEF FormInv
  <2> QED
    BY <1>2, <1>4, <2>4, <2>5, <2>7, <2>9, <2>10, <2>11, FormsOnly
<1> QED
  BY <1>3, <1>4 DEF Prepare

LEMMA CommitStep ==
  ASSUME FormAssumption, FormIInv, NEW e \in Editors, Commit(e)
  PROVE  FormIInv'
<1>1. FormTypeOK /\ WholeInv /\ FormInv /\ NothingRevives
  BY DEF FormIInv
<1>2. form[e].save # NoNode /\ form' = [form EXCEPT ![e] = NoForm] /\ UNCHANGED <<ids, typed, home>>
  BY DEF Commit
<1>3. /\ NoForm.id = 0 /\ NoForm.revision = 0 /\ NoForm.save = NoNode /\ row.revision \in Nat
      /\ NoForm \in [id : 0..MaxNodes, revision : 0..MaxRevision, save : NodeRows \cup {NoNode}]
      /\ Whole(NoForm.save, typed', home')
  BY <1>1, RowShape, RowNumbers, NoFormShape
<1>4. CASE UNCHANGED <<row, retired>>
  <2>1. /\ typed <= typed' /\ typed' \in 0..MaxTyped /\ home' \in [Values -> Protocols \cup {"none"}]
        /\ \A x \in 1..typed : home'[x] = home[x]
    BY <1>1, <1>2, ValueShape DEF FormTypeOK
  <2>2. NoForm.id <= ids /\ (row.id = NoForm.id => NoForm.revision <= row.revision)
    BY <1>1, <1>3, RowNumbers
  <2> QED
    BY <1>2, <1>3, <1>4, <2>1, <2>2, FormsOnly
<1>5. CASE Current(e) /\ Write(form[e].save)
  <2> PICK s : s = form[e].save
    OBVIOUS
  <2>1. s \in NodeRows /\ s # NoNode /\ s.id \in 1..MaxNodes
    BY <1>1, <1>2, RowNumbers, RowShape
  <2>2. /\ s.id = row.id /\ s.revision = row.revision + 1 /\ row.id <= ids
        /\ Stored(s) \cap retired = {} /\ Whole(s, typed, home)
    BY <1>1, <1>2, <1>5 DEF FormInv, Current, WholeInv
  <2>3. row' = s /\ retired' = retired \cup (Stored(row) \ Stored(s))
    BY <1>5 DEF Write
  <2>4. form'[e] = NoForm /\ \A e2 \in Editors \ {e} : form'[e2] = form[e2]
    BY <1>1, <1>2 DEF FormTypeOK
  <2>5. FormTypeOK'
    <3>1. Stored(row) \subseteq 1..typed
      BY <1>1, RowShape DEF WholeInv, Whole
    <3>2. retired' \subseteq 1..typed
      BY <1>1, <2>3, <3>1 DEF FormTypeOK
    <3>3. validateKnownTopLevel(s.protocol, s.params) /\ s.params["password"] \notin {Absent, Blank}
      BY <2>1, <2>2 DEF Whole
    <3> QED
      BY <1>1, <1>2, <1>3, <2>1, <2>3, <3>2, <3>3 DEF FormTypeOK
  <2>6. WholeInv'
    BY <1>1, <1>2, <1>3, <2>2, <2>3, <2>4 DEF WholeInv
  <2>7. FormInv'
    <3> SUFFICES ASSUME NEW e2 \in Editors
                 PROVE  /\ form'[e2].id <= ids /\ (form'[e2].id = 0 => form'[e2] = NoForm)
                        /\ s.id = form'[e2].id => form'[e2].revision <= s.revision
                        /\ form'[e2].save # NoNode =>
                             /\ form'[e2].save.id = form'[e2].id
                             /\ form'[e2].save.revision = form'[e2].revision + 1
                             /\ ~(s.id = form'[e2].id /\ s.revision = form'[e2].revision)
      BY <1>2, <2>2, <2>3 DEF FormInv, Current
    <3>1. CASE e2 = e
      BY <1>1, <1>3, <2>1, <2>4, <3>1, RowNumbers
    <3>2. CASE e2 # e
      <4>1. /\ form[e2].id <= ids /\ (form[e2].id = 0 => form[e2] = NoForm)
            /\ row.id = form[e2].id => form[e2].revision <= row.revision
            /\ form[e2].save # NoNode =>
                 /\ form[e2].save.id = form[e2].id
                 /\ form[e2].save.revision = form[e2].revision + 1
        BY <1>1 DEF FormInv
      <4> QED
        BY <1>1, <2>2, <2>4, <3>2, <4>1, RowNumbers
    <3> QED
      BY <3>1, <3>2
  <2>8. NothingRevives'
    BY <2>2, <2>3 DEF NothingRevives
  <2> QED
    BY <2>5, <2>6, <2>7, <2>8 DEF FormIInv
<1> QED
  BY <1>4, <1>5 DEF Commit, Current

LEMMA DeleteNodeStep ==
  ASSUME FormAssumption, FormIInv, DeleteNode
  PROVE  FormIInv'
<1>1. FormTypeOK /\ WholeInv /\ FormInv /\ NothingRevives
  BY DEF FormIInv
<1>2. row # NoNode /\ row' = NoNode /\ retired' = retired \cup Stored(row)
      /\ UNCHANGED <<ids, form, typed, home>>
  BY RowShape DEF DeleteNode, Write
<1>3. FormTypeOK'
  <2>1. Stored(row) \subseteq 1..typed
    BY <1>1, <1>2 DEF WholeInv, Whole
  <2>2. retired' \subseteq 1..typed
    BY <1>1, <1>2, <2>1 DEF FormTypeOK
  <2> QED
    BY <1>1, <1>2, <2>2 DEF FormTypeOK
<1>4. WholeInv'
  BY <1>1, <1>2, NoFormShape DEF WholeInv
<1>5. FormInv'
  <2>1. \A e \in Editors :
          /\ form[e].id <= ids /\ (form[e].id = 0 => form[e] = NoForm)
          /\ form[e].save # NoNode =>
               /\ form[e].save.id = form[e].id
               /\ form[e].save.revision = form[e].revision + 1
    BY <1>1 DEF FormInv
  <2>2. ids \in Nat /\ NoNode.id = 0 /\ NoNode.revision = 0 /\ NoForm.revision = 0 /\ NoForm.save = NoNode
    BY <1>1, RowNumbers, RowShape
  <2> QED
    BY <1>2, <2>1, <2>2 DEF FormInv, Current
<1>6. NothingRevives'
  BY <1>2, RowShape DEF NothingRevives
<1> QED
  BY <1>3, <1>4, <1>5, <1>6 DEF FormIInv

LEMMA InitFormIInv ==
  ASSUME FormAssumption, FormInit
  PROVE  FormIInv
<1>1. /\ row = NoNode /\ ids = 0 /\ form = [e \in Editors |-> NoForm] /\ typed = 0 /\ retired = {}
      /\ home = [x \in Values |-> "none"]
  BY DEF FormInit
<1>2. \A e \in Editors : form[e] = NoForm
  BY <1>1
<1>3. /\ NoNode.id = 0 /\ NoNode.revision = 0 /\ NoForm.id = 0 /\ NoForm.revision = 0 /\ NoForm.save = NoNode
      /\ NoForm \in [id : 0..MaxNodes, revision : 0..MaxRevision, save : NodeRows \cup {NoNode}]
      /\ \A n, h : Whole(NoNode, n, h)
  BY RowShape, NoFormShape
<1>4. FormTypeOK
  BY <1>1, <1>3, ValueShape DEF FormTypeOK
<1>5. WholeInv
  BY <1>1, <1>2, <1>3 DEF WholeInv
<1>6. FormInv
  BY <1>1, <1>2, <1>3 DEF FormInv
<1>7. NothingRevives
  BY <1>1 DEF NothingRevives
<1> QED
  BY <1>4, <1>5, <1>6, <1>7 DEF FormIInv

LEMMA NextFormIInv ==
  ASSUME FormAssumption, FormIInv, [FormNext]_formVars
  PROVE  FormIInv'
<1>1. CASE UNCHANGED formVars
  BY <1>1 DEF formVars, FormIInv, FormTypeOK, WholeInv, FormInv, Current, NothingRevives
<1>2. CASE FormNext
  BY <1>2, ImportURIsStep, CreateManualStep, OpenStep, PrepareStep, CommitStep, DeleteNodeStep DEF FormNext
<1> QED
  BY <1>1, <1>2

THEOREM FormInvariance == FormSpec => []FormIInv
<1>1. FormInit => FormIInv
  BY FormAssumption, InitFormIInv
<1>2. FormIInv /\ [FormNext]_formVars => FormIInv'
  BY FormAssumption, NextFormIInv
<1> QED
  BY <1>1, <1>2, PTL DEF FormSpec

(* FormTyped: the stored row and what the forms hold are what the code stores,
   the row has only parameters its protocol declares and always a password. *)
THEOREM FormTyped == FormSpec => []FormTypeOK
<1>1. FormIInv => FormTypeOK
  BY DEF FormIInv
<1> QED
  BY <1>1, FormInvariance, PTL

(* NothingComesBack: a credential, parameter or extension payload that a save
   reset, cleared or replaced is never stored again, whatever other editors
   had opened or prepared (UpdateManual's revision check). *)
THEOREM NothingComesBack == FormSpec => []NothingRevives
<1>1. FormIInv => NothingRevives
  BY DEF FormIInv
<1> QED
  BY <1>1, FormInvariance, PTL

(* RowStaysWhole: whatever branches editors switch and however their saves
   interleave, the stored row is one configuration, of values typed for its
   own protocol. *)
THEOREM RowStaysWhole == FormSpec => []RowIsWhole
<1>1. FormIInv => RowIsWhole
  <2> SUFFICES ASSUME FormIInv PROVE ValuesKeepTheirProtocol /\ BranchesFit
    BY DEF RowIsWhole
  <2>1. Whole(row, typed, home)
    BY DEF FormIInv, WholeInv
  <2>2. CASE row = NoNode
    BY <2>2, FormAssumption, RowShape DEF ValuesKeepTheirProtocol, BranchesFit
  <2>3. CASE row # NoNode
    BY <2>1, <2>3 DEF Whole, ValuesKeepTheirProtocol, BranchesFit
  <2> QED
    BY <2>2, <2>3
<1> QED
  BY <1>1, FormInvariance, PTL

-----------------------------------------------------------------------------
(***************************************************************************)
(* Resources, their versions, links and installers.                        *)
(***************************************************************************)

(* The links of one row.                                                   *)
LinkOk(k) ==
  /\ k[1] = "share" /\ There(k) => rows[k].links = (IF rows[k].status = "active" THEN 1 ELSE 0)
  /\ k[1] = "rule" /\ There(k) => rows[k].links = 1
  /\ ~There(k) => rows[k].links = 0

(* A slug that was checked is still free, unless the check is out of date. *)
SlugOk(w) ==
  req[w].pc = "checked" /\ ~req[w].stale =>
    \A k \in Keys : There(k) => rows[k].slug # req[w].slug

SlugInv == \A w \in Workers : SlugOk(w)

HomeInv ==
  /\ \A j, k \in Keys : rows[j].home /\ rows[k].home => j = k
  /\ \A k \in Keys : rows[k].home => There(k)

OfPlatform(k, p) == k[1] = "subscription" /\ There(k) /\ rows[k].platform = p

FormatInv ==
  \A p \in Ids :
    /\ \A j, k \in Keys : OfPlatform(j, p) /\ OfPlatform(k, p) => j = k
    /\ \A k \in Keys : OfPlatform(k, p) => PlatformThere(p) /\ rows[k].format = platforms[p].format

(* What is listed or about to be removed has been uploaded, and what is    *)
(* about to be removed is on no list, unless another platform lists it.    *)
Doomed(f) == disk[f] # "new" /\ (f \in misfiled \/ \A p \in Ids : f \notin platforms[p].list)
FileInv ==
  /\ \A p \in Ids : \A f \in platforms[p].list : disk[f] # "new"
  /\ \A w \in Workers : \A f \in req[w].files : Doomed(f)

(* The subscription a generation has seen was there, and if it still is    *)
(* the rendering has its format.                                           *)
Seen(k, kind) == rows[k].life # "unused" /\ (There(k) => kind = KindOf[rows[k].format])
SeenOk(w) ==
  req[w].pc = "rendered" \/ (req[w].pc \in {"resolved", "ruled"} /\ req[w].key[1] = "subscription") =>
    \E k \in Keys : k = <<"subscription", req[w].seen>> /\ Seen(k, req[w].kind)
RenderInv == \A w \in Workers : SeenOk(w)

(* Bytes that were read can be served as what is current now.              *)
ReaderOk(r) ==
  reader[r].pc = "read" => reader[r].moved \/ Fits(reader[r].kind, CurrentKind(reader[r].key))
ReaderInv == \A r \in Readers : ReaderOk(r)

IInv ==
  /\ TypeOK /\ LinksAgree /\ SlugsDistinct /\ SlugInv /\ HomeInv /\ FormatInv
  /\ ListedIsOnDisk /\ FileInv /\ RenderInv /\ BlueprintsFit /\ ReaderInv

-----------------------------------------------------------------------------
(* Keys, records and what a field means.                                   *)

LEMMA KeyShape ==
  ASSUME ResourcesAssumption
  PROVE  /\ \A k \in Keys : k = <<k[1], k[2]>> /\ k[1] \in Tables /\ k[2] \in Nat
         /\ \A t \in Tables : <<t, 1>> \in Keys
<1>1. ASSUME NEW k \in Keys
      PROVE  k = <<k[1], k[2]>> /\ k[1] \in Tables /\ k[2] \in Nat
  <2>1. PICK t \in Tables : k \in {t} \X (1..MaxRows[t])
    BY DEF Keys
  <2>2. MaxRows[t] \in Nat
    BY DEF ResourcesAssumption
  <2> QED
    BY <2>1, <2>2
<1>2. ASSUME NEW t \in Tables
      PROVE  <<t, 1>> \in Keys
  <2>1. MaxRows[t] \in Nat \ {0}
    BY DEF ResourcesAssumption
  <2>2. <<t, 1>> \in {t} \X (1..MaxRows[t])
    BY <2>1
  <2> QED
    BY <2>2 DEF Keys
<1> QED
  BY <1>1, <1>2

LEMMA Known ==
  ASSUME ResourcesAssumption, TypeOK
  PROVE  /\ \A k \in Keys : rows[k] \in Rows
         /\ \A w \in Workers : req[w] \in Requests
         /\ \A r \in Readers : reader[r] \in Downloads
BY DEF TypeOK

(* One row changed.                                                        *)
LEMMA Changed ==
  ASSUME rows \in [Keys -> Rows], NEW k \in Keys, NEW s \in Rows, rows' = [rows EXCEPT ![k] = s]
  PROVE  /\ rows' \in [Keys -> Rows] /\ rows'[k] = s
         /\ \A j \in Keys \ {k} : rows'[j] = rows[j]
  OBVIOUS

LEMMA Went ==
  ASSUME req \in [Workers -> Requests], NEW w \in Workers, NEW s \in Requests, Goto(w, s)
  PROVE  /\ req' \in [Workers -> Requests] /\ req'[w] = s
         /\ \A u \in Workers \ {w} : req'[u] = req[u]
BY DEF Goto

LEMMA BlankRow ==
  ASSUME ResourcesAssumption
  PROVE  /\ NoRow \in Rows /\ Deleted \in Rows /\ Idle \in Requests /\ Unread \in Downloads
         /\ NoRow.life = "unused" /\ NoRow.links = 0 /\ NoRow.cur = 0 /\ ~NoRow.home
         /\ Deleted.life = "gone" /\ Deleted.links = 0 /\ Deleted.cur = 0 /\ ~Deleted.home
         /\ Idle.pc = "idle" /\ Idle.files = {} /\ ~Idle.stale /\ Unread.pc = "idle"
<1>1. <<"share", 1>> \in Keys /\ <<"subscription", 1>> \in Keys
  BY KeyShape DEF Tables
<1>2. NoVersions \in [Numbers -> Kinds \cup {"none"}] /\ "auto" \in SlugsToTry
  BY DEF NoVersions, SlugsToTry
<1> QED
  BY <1>1, <1>2 DEF NoRow, Deleted, Idle, Unread, Rows, Requests, Downloads, Kinds, Formats

LEMMA PublishedRow ==
  ASSUME NEW r \in Rows, NEW n \in Numbers, NEW kind \in Kinds, NEW act \in BOOLEAN
  PROVE  LET s == Published(r, n, kind, act) IN
         /\ s \in Rows
         /\ s.life = r.life /\ s.slug = r.slug /\ s.platform = r.platform /\ s.format = r.format
         /\ s.status = r.status /\ s.links = r.links /\ s.home = r.home
         /\ s.vers[n] = kind /\ \A m \in Numbers \ {n} : s.vers[m] = r.vers[m]
         /\ s.cur = IF r.cur = 0 \/ act THEN n ELSE r.cur
BY DEF Published, Rows

LEMMA LinkedRow ==
  ASSUME NEW r \in Rows
  PROVE  LET s == Linked(r) IN
         /\ s \in Rows /\ s.links = 1
         /\ s.life = r.life /\ s.slug = r.slug /\ s.platform = r.platform /\ s.format = r.format
         /\ s.status = r.status /\ s.home = r.home /\ s.vers = r.vers /\ s.cur = r.cur
BY DEF Linked, Rows

LEMMA FreshRow ==
  ASSUME ResourcesAssumption, NEW v \in SlugsToTry
  PROVE  LET s == Fresh(v) IN
         /\ s \in Rows /\ s.life = "present" /\ s.slug = v /\ s.platform = 0 /\ s.status = "active"
         /\ s.links = 0 /\ ~s.home /\ s.vers = NoVersions /\ s.cur = 0
BY BlankRow DEF Fresh, NoRow, Rows

-----------------------------------------------------------------------------
(* What may happen to a row in one step.                                   *)

Written(k) ==
  /\ There(k) /\ There(k)'
  /\ rows'[k].slug = rows[k].slug /\ rows'[k].platform = rows[k].platform
  /\ rows'[k].format = rows[k].format
  /\ rows'[k].cur = rows[k].cur /\ rows[k].cur # 0 =>
       rows'[k].vers[rows[k].cur] = rows[k].vers[rows[k].cur]
  /\ \A n \in Numbers :
       \/ rows'[k].vers[n] \in {"none", "upload", rows[k].vers[n]}
       \/ k[1] # "subscription" \/ k \in strayed' \/ rows'[k].vers[n] = KindOf[rows[k].format]
Born(k) == rows[k].life = "unused" /\ There(k)' /\ rows'[k].vers = NoVersions /\ rows'[k].cur = 0
Died(k) == There(k) /\ rows'[k].life \in {"rolled", "gone"}

Moves(k) ==
  /\ LinkOk(k)'
  /\ rows'[k] = rows[k] \/ Born(k) \/ Written(k) \/ Died(k)

LEMMA RowsKeep ==
  ASSUME ResourcesAssumption, IInv, TypeOK', \A k \in Keys : Moves(k), strayed \subseteq strayed',
         reader' = Noticed
  PROVE  LinksAgree' /\ BlueprintsFit' /\ ReaderInv'
<1>1. LinksAgree'
  BY DEF Moves, LinkOk, LinksAgree
<1>2. BlueprintsFit'
  <2> SUFFICES ASSUME NEW k \in Keys, There(k)', k[1] = "subscription", k \notin strayed',
                      NEW n \in Numbers
               PROVE  rows'[k].vers[n] \in {"none", "upload", KindOf[rows'[k].format]}
    BY DEF BlueprintsFit
  <2>1. CASE rows'[k] = rows[k]
    BY <2>1 DEF IInv, BlueprintsFit, There
  <2>2. CASE Born(k)
    BY <2>2 DEF Born, NoVersions
  <2>3. CASE Written(k)
    BY <2>3 DEF IInv, BlueprintsFit, Written
  <2>4. CASE Died(k)
    BY <2>4 DEF Died, There
  <2> QED
    BY <2>1, <2>2, <2>3, <2>4 DEF Moves
<1>3. ReaderInv'
  <2>1. ASSUME NEW k \in Keys, rows'[k].cur = rows[k].cur, rows'[k].life = rows[k].life
        PROVE  CurrentKind(k)' = CurrentKind(k)
    <3>1. There(k)' <=> There(k)
      BY <2>1 DEF There
    <3>2. There(k) /\ rows[k].cur # 0 => rows'[k].vers[rows[k].cur] = rows[k].vers[rows[k].cur]
      BY <2>1, <3>1 DEF Moves, Born, Written, Died, There
    <3> QED
      BY <2>1, <3>1, <3>2 DEF CurrentKind
  <2>2. ASSUME NEW r \in Readers, reader'[r].pc = "read", ~reader'[r].moved
        PROVE  ReaderOk(r)'
    <3>1. reader[r] \in Downloads
      BY Known DEF IInv
    <3>2. PICK k \in Keys : k = reader[r].key
      BY <3>1 DEF Downloads
    <3>3. reader'[r] = reader[r] /\ rows'[k].cur = rows[k].cur /\ rows'[k].life = rows[k].life
      BY <2>2, <3>1, <3>2 DEF Noticed, Downloads
    <3>4. Fits(reader[r].kind, CurrentKind(k))
      BY <2>2, <3>2, <3>3 DEF IInv, ReaderInv, ReaderOk
    <3>5. CurrentKind(k)' = CurrentKind(k)
      BY <2>1, <3>3
    <3>6. Fits(reader'[r].kind, CurrentKind(k)')
      BY <3>3, <3>4, <3>5
    <3> QED
      BY <3>2, <3>3, <3>6 DEF ReaderOk
  <2> QED
    BY <2>2 DEF ReaderInv, ReaderOk
<1> QED
  BY <1>1, <1>2, <1>3

(* A row that was seen keeps its format.                                   *)
LEMMA SeenKeeps ==
  ASSUME NEW k \in Keys, Moves(k), NEW kind, Seen(k, kind)
  PROVE  Seen(k, kind)'
BY DEF Moves, Born, Written, Died, Seen, There

LEMMA RendersKeep ==
  ASSUME ResourcesAssumption, IInv, \A k \in Keys : Moves(k),
         \A u \in Workers :
           \/ /\ req'[u].pc = req[u].pc /\ req'[u].key = req[u].key
              /\ req'[u].seen = req[u].seen /\ req'[u].kind = req[u].kind
           \/ SeenOk(u)'
  PROVE  RenderInv'
<1> SUFFICES ASSUME NEW u \in Workers PROVE SeenOk(u)'
  BY DEF RenderInv
<1>1. SeenOk(u)
  BY DEF IInv, RenderInv
<1> QED
  BY <1>1, SeenKeeps DEF SeenOk

(* No slug is taken and no check undone.                                   *)
LEMMA SlugsKeep ==
  ASSUME IInv, \A k \in Keys : There(k)' => There(k) /\ rows'[k].slug = rows[k].slug,
         crossed \subseteq crossed',
         \A u \in Workers :
           \/ /\ req'[u].pc = req[u].pc /\ req'[u].slug = req[u].slug
              /\ req'[u].stale = req[u].stale
           \/ SlugOk(u)'
  PROVE  SlugInv' /\ SlugsDistinct'
<1>1. SlugInv'
  <2> SUFFICES ASSUME NEW u \in Workers PROVE SlugOk(u)'
    BY DEF SlugInv
  <2>1. SlugOk(u)
    BY DEF IInv, SlugInv
  <2> QED
    BY <2>1 DEF SlugOk
<1>2. SlugsDistinct'
  BY DEF IInv, SlugsDistinct
<1> QED
  BY <1>1, <1>2

LEMMA HomesKeep ==
  ASSUME IInv, \A k \in Keys : rows'[k].home => rows[k].home /\ There(k)'
  PROVE  HomeInv'
BY DEF IInv, HomeInv

LEMMA FormatsKeep ==
  ASSUME IInv,
         \A k \in Keys : There(k)' => /\ There(k) /\ rows'[k].platform = rows[k].platform
                                      /\ rows'[k].format = rows[k].format,
         \A p \in Ids : platforms'[p].life = platforms[p].life /\ platforms'[p].format = platforms[p].format
  PROVE  FormatInv'
BY DEF IInv, FormatInv, OfPlatform, PlatformThere

LEMMA FilesKeep ==
  ASSUME IInv, \A p \in Ids : platforms'[p].list = platforms[p].list,
         disk' = disk, misfiled' = misfiled,
         \A u \in Workers : req'[u].files \subseteq req[u].files
  PROVE  FileInv' /\ ListedIsOnDisk'
BY DEF IInv, FileInv, ListedIsOnDisk, Doomed

(* A step on rows that are there, or on none, that takes no slug, leaves   *)
(* platforms and packages alone, and adds no file to a request.            *)
Modest ==
  /\ UNCHANGED <<platforms, disk, crossed, misfiled>> /\ strayed \subseteq strayed'
  /\ \A k \in Keys : Moves(k) /\ ~Born(k)
  /\ \A u \in Workers : req'[u] = req[u] \/ (req'[u].files = {} /\ SlugOk(u)' /\ SeenOk(u)')
  /\ reader' = Noticed

LEMMA ModestStep ==
  ASSUME ResourcesAssumption, IInv, TypeOK', HomeInv', Modest
  PROVE  IInv'
<1>1. \A k \in Keys : There(k)' => /\ There(k) /\ rows'[k].slug = rows[k].slug
                                   /\ rows'[k].platform = rows[k].platform
                                   /\ rows'[k].format = rows[k].format
  BY DEF Modest, Moves, Written, Died, There
<1>2. LinksAgree' /\ BlueprintsFit' /\ ReaderInv'
  BY RowsKeep DEF Modest
<1>3. RenderInv'
  BY RendersKeep DEF Modest
<1>4. SlugInv' /\ SlugsDistinct'
  BY <1>1, SlugsKeep DEF Modest
<1>5. FormatInv'
  BY <1>1, FormatsKeep DEF Modest
<1>6. FileInv' /\ ListedIsOnDisk'
  BY FilesKeep DEF Modest
<1> QED
  BY <1>2, <1>3, <1>4, <1>5, <1>6 DEF IInv

-----------------------------------------------------------------------------
(* The steps on rows that are there.                                       *)

RowsOk ==
  /\ rows \in [Keys -> Rows]
  /\ \A k \in Keys : rows[k].cur # 0 => rows[k].vers[rows[k].cur] \in Kinds

LEMMA NoticedTyped ==
  ASSUME TypeOK, reader' = Noticed
  PROVE  reader' \in [Readers -> Downloads]
BY DEF TypeOK, Noticed, Downloads

LEMMA Counted ==
  ASSUME ResourcesAssumption, TypeOK, NEW w, Begins(w) \/ acts' = acts
  PROVE  acts' \in 0..MaxActs
BY DEF ResourcesAssumption, TypeOK, Begins

LEMMA OneRow ==
  ASSUME IInv, NEW k \in Keys, NEW s \in Rows, rows' = [rows EXCEPT ![k] = s],
         s.cur # 0 => s.vers[s.cur] \in Kinds,
         rows'[k] = s => Moves(k)
  PROVE  RowsOk' /\ \A j \in Keys : Moves(j) /\ (j # k => rows'[j] = rows[j])
<1>1. rows' \in [Keys -> Rows] /\ rows'[k] = s /\ \A j \in Keys \ {k} : rows'[j] = rows[j]
  BY Changed DEF IInv, TypeOK
<1>2. RowsOk'
  BY <1>1 DEF IInv, TypeOK, RowsOk
<1>3. \A j \in Keys \ {k} : Moves(j)
  BY <1>1 DEF IInv, LinksAgree, LinkOk, There, Moves
<1> QED
  BY <1>1, <1>2, <1>3

LEMMA SameRows ==
  ASSUME IInv, rows' = rows
  PROVE  RowsOk' /\ HomeInv' /\ \A k \in Keys : Moves(k) /\ ~Born(k)
BY DEF IInv, TypeOK, RowsOk, HomeInv, There, Moves, LinksAgree, LinkOk, Born

(* A version more.                                                         *)
LEMMA Versioned ==
  ASSUME IInv, NEW k \in Keys, NEW kind \in Kinds, NEW act \in BOOLEAN, CreateVersion(k, kind, act),
         kind = "upload" \/ k[1] # "subscription" \/ k \in strayed' \/ kind = KindOf[rows[k].format]
  PROVE  RowsOk' /\ HomeInv' /\ \A j \in Keys : Moves(j) /\ ~Born(j)
<1>1. PICK n \in Numbers : NextNo(rows[k], n) /\ rows' = [rows EXCEPT ![k] = Published(@, n, kind, act)]
  BY DEF CreateVersion
<1> DEFINE r == rows[k]  s == Published(r, n, kind, act)
<1>2. r \in Rows /\ There(k)
  BY DEF IInv, TypeOK, CreateVersion
<1>3. r.vers[n] = "none" /\ n \in Nat /\ n # 0
  <2>1. n \notin 1..(n - 1) /\ n \in Nat /\ n # 0
    BY DEF Numbers
  <2> QED
    BY <1>1, <2>1 DEF NextNo
<1>4. r.cur # 0 => r.vers[r.cur] \in Kinds
  BY DEF IInv, TypeOK
<1>5. r.cur # n
  BY <1>3, <1>4 DEF Kinds
<1>6. r.cur # 0 => r.cur \in Numbers
  BY <1>2 DEF Rows
<1>7. /\ s \in Rows
      /\ s.life = r.life /\ s.slug = r.slug /\ s.platform = r.platform /\ s.format = r.format
      /\ s.status = r.status /\ s.links = r.links /\ s.home = r.home
      /\ s.vers[n] = kind /\ \A m \in Numbers \ {n} : s.vers[m] = r.vers[m]
      /\ s.cur = IF r.cur = 0 \/ act THEN n ELSE r.cur
  BY <1>2, PublishedRow
<1>8. rows' = [rows EXCEPT ![k] = s]
  BY <1>1
<1> HIDE DEF s
<1>9. s.cur # 0 => s.vers[s.cur] \in Kinds
  BY <1>4, <1>5, <1>6, <1>7
<1>10. rows'[k] = s => Moves(k)
  <2> SUFFICES ASSUME rows'[k] = s PROVE Moves(k)
    OBVIOUS
  <2>1. LinkOk(k)'
    BY <1>2, <1>7 DEF IInv, LinksAgree, LinkOk, There
  <2>2. Written(k)
    BY <1>2, <1>5, <1>6, <1>7 DEF Written, There
  <2> QED
    BY <2>1, <2>2 DEF Moves
<1>11. RowsOk' /\ \A j \in Keys : Moves(j) /\ (j # k => rows'[j] = rows[j])
  BY <1>7, <1>8, <1>9, <1>10, OneRow
<1>12. rows'[k] = s
  BY <1>7, <1>8 DEF IInv, TypeOK
<1>13. \A j \in Keys : ~Born(j)
  BY <1>2, <1>7, <1>11, <1>12 DEF Born, There
<1>14. HomeInv'
  BY <1>2, <1>7, <1>11, <1>12, HomesKeep DEF IInv, HomeInv, There
<1> QED
  BY <1>11, <1>13, <1>14

(* A row that stays or goes, whose versions are left alone but for one     *)
(* that is removed.                                                        *)
LEMMA Kept ==
  ASSUME IInv, NEW k \in Keys, There(k), NEW s \in Rows, rows' = [rows EXCEPT ![k] = s],
         s.cur # 0 => s.vers[s.cur] \in Kinds,
         s.home => rows[k].home /\ s.life = "present",
         rows'[k] = s => LinkOk(k)',
         \/ s.life \in {"rolled", "gone"}
         \/ /\ s.life = "present" /\ s.slug = rows[k].slug /\ s.platform = rows[k].platform
            /\ s.format = rows[k].format
            /\ s.cur = rows[k].cur => s.cur = 0 \/ s.vers[s.cur] = rows[k].vers[s.cur]
            /\ \A n \in Numbers : s.vers[n] \in {"none", rows[k].vers[n]}
  PROVE  RowsOk' /\ HomeInv' /\ \A j \in Keys : Moves(j) /\ ~Born(j)
<1>1. rows'[k] = s
  BY DEF IInv, TypeOK
<1>2. rows[k] \in Rows
  BY DEF IInv, TypeOK
<1>3. Moves(k)
  BY <1>1, <1>2 DEF Moves, Written, Died, There
<1>4. RowsOk' /\ \A j \in Keys : Moves(j) /\ (j # k => rows'[j] = rows[j])
  BY <1>3, OneRow
<1>5. \A j \in Keys : ~Born(j)
  BY <1>4 DEF Born, There
<1>6. \A j \in Keys : rows'[j].home => rows[j].home /\ There(j)'
  BY <1>1, <1>4 DEF IInv, HomeInv, There
<1> QED
  BY <1>4, <1>5, <1>6, HomesKeep

(* All parts of such a step together.                                      *)
LEMMA Together ==
  ASSUME ResourcesAssumption, IInv, UNCHANGED <<platforms, disk, crossed, misfiled>>,
         strayed \subseteq strayed', strayed' \subseteq Keys,
         RowsOk', HomeInv', \A k \in Keys : Moves(k) /\ ~Born(k),
         req' \in [Workers -> Requests],
         \A u \in Workers : req'[u] = req[u] \/ (req'[u].files = {} /\ SlugOk(u)' /\ SeenOk(u)'),
         acts' \in 0..MaxActs, reader' = Noticed
  PROVE  IInv'
<1>1. TypeOK'
  BY NoticedTyped DEF IInv, TypeOK, RowsOk
<1> QED
  BY <1>1, ModestStep DEF Modest

LEMMA Bare ==
  ASSUME IInv, UNCHANGED req
  PROVE  /\ req' \in [Workers -> Requests]
         /\ \A u \in Workers : req'[u] = req[u] \/ (req'[u].files = {} /\ SlugOk(u)' /\ SeenOk(u)')
BY DEF IInv, TypeOK

(* A request that comes to a point where it owes nothing.                  *)
LEMMA Eased ==
  ASSUME IInv, NEW w \in Workers, NEW s \in Requests, Goto(w, s), s.files = {},
         s.pc \in {"idle", "first", "rollback"}
  PROVE  /\ req' \in [Workers -> Requests]
         /\ \A u \in Workers : req'[u] = req[u] \/ (req'[u].files = {} /\ SlugOk(u)' /\ SeenOk(u)')
BY Went DEF IInv, TypeOK, SlugOk, SeenOk

LEMMA Ended ==
  ASSUME ResourcesAssumption, IInv, NEW w \in Workers, Ends(w)
  PROVE  /\ req' \in [Workers -> Requests]
         /\ \A u \in Workers : req'[u] = req[u] \/ (req'[u].files = {} /\ SlugOk(u)' /\ SeenOk(u)')
BY BlankRow, Eased DEF Ends

LEMMA StepUpload ==
  ASSUME ResourcesAssumption, IInv, NEW w \in Workers, NEW k \in Keys, Upload(w, k), reader' = Noticed
  PROVE  IInv'
<1>1. RowsOk' /\ HomeInv' /\ \A j \in Keys : Moves(j) /\ ~Born(j)
  BY Versioned DEF Upload, Kinds
<1>2. acts' \in 0..MaxActs
  BY Counted DEF Upload, IInv
<1>3. strayed' \subseteq Keys
  BY DEF IInv, TypeOK, Upload, history
<1> QED
  BY <1>1, <1>2, <1>3, Bare, Together DEF Upload, history

LEMMA StepSwitchVersion ==
  ASSUME ResourcesAssumption, IInv, NEW w \in Workers, NEW k \in Keys, NEW n \in Numbers,
         SwitchVersion(w, k, n), reader' = Noticed
  PROVE  IInv'
<1> DEFINE r == rows[k]  s == [r EXCEPT !.cur = n]
<1>1. r \in Rows /\ There(k) /\ r.vers[n] # "none" /\ n # r.cur
  BY DEF IInv, TypeOK, SwitchVersion
<1>2. /\ s \in Rows /\ s.life = r.life /\ s.slug = r.slug /\ s.platform = r.platform
      /\ s.format = r.format /\ s.home = r.home /\ s.vers = r.vers /\ s.cur = n
      /\ s.links = r.links /\ s.status = r.status
  BY <1>1 DEF Rows
<1>3. rows' = [rows EXCEPT ![k] = s]
  BY DEF SwitchVersion
<1> HIDE DEF s
<1>4. s.vers[s.cur] \in Kinds
  BY <1>1, <1>2 DEF Rows
<1>5. rows'[k] = s => LinkOk(k)'
  BY <1>1, <1>2 DEF IInv, LinksAgree, LinkOk, There
<1>6. RowsOk' /\ HomeInv' /\ \A j \in Keys : Moves(j) /\ ~Born(j)
  BY <1>1, <1>2, <1>3, <1>4, <1>5, Kept DEF There
<1>7. acts' \in 0..MaxActs /\ strayed' \subseteq Keys
  BY Counted DEF SwitchVersion, IInv, TypeOK, history
<1> QED
  BY <1>6, <1>7, Bare, Together DEF SwitchVersion, history

LEMMA StepDeleteVersion ==
  ASSUME ResourcesAssumption, IInv, NEW w \in Workers, NEW k \in Keys, NEW n \in Numbers,
         DeleteVersion(w, k, n), reader' = Noticed
  PROVE  IInv'
<1> DEFINE r == rows[k]  s == [r EXCEPT !.vers = [r.vers EXCEPT ![n] = "none"]]
<1>1. r \in Rows /\ There(k) /\ n # r.cur /\ (r.cur # 0 => r.vers[r.cur] \in Kinds)
  BY DEF IInv, TypeOK, DeleteVersion
<1>2. /\ s \in Rows /\ s.life = r.life /\ s.slug = r.slug /\ s.platform = r.platform
      /\ s.format = r.format /\ s.home = r.home /\ s.cur = r.cur
      /\ s.links = r.links /\ s.status = r.status
      /\ s.vers[n] = "none" /\ \A m \in Numbers \ {n} : s.vers[m] = r.vers[m]
  BY <1>1 DEF Rows
<1>3. rows' = [rows EXCEPT ![k] = s]
  BY DEF DeleteVersion
<1> HIDE DEF s
<1>4. s.cur # 0 => s.vers[s.cur] = r.vers[s.cur] /\ s.vers[s.cur] \in Kinds
  BY <1>1, <1>2 DEF Rows
<1>5. rows'[k] = s => LinkOk(k)'
  BY <1>1, <1>2 DEF IInv, LinksAgree, LinkOk, There
<1>6. RowsOk' /\ HomeInv' /\ \A j \in Keys : Moves(j) /\ ~Born(j)
  BY <1>1, <1>2, <1>3, <1>4, <1>5, Kept DEF There
<1>7. acts' \in 0..MaxActs /\ strayed' \subseteq Keys
  BY Counted DEF DeleteVersion, IInv, TypeOK, history
<1> QED
  BY <1>6, <1>7, Bare, Together DEF DeleteVersion, history

LEMMA StepRefreshToken ==
  ASSUME ResourcesAssumption, IInv, NEW w \in Workers, NEW k \in Keys, RefreshToken(w, k),
         reader' = Noticed
  PROVE  IInv'
<1> DEFINE r == rows[k]  l == Linked(r)  s == [l EXCEPT !.status = "active"]
<1>1. /\ r \in Rows /\ There(k) /\ (r.cur # 0 => r.vers[r.cur] \in Kinds)
      /\ k[1] \in {"share", "rule"}
  BY DEF IInv, TypeOK, RefreshToken
<1>2. /\ s \in Rows /\ s.life = r.life /\ s.slug = r.slug /\ s.platform = r.platform
      /\ s.format = r.format /\ s.home = r.home /\ s.vers = r.vers /\ s.cur = r.cur
      /\ s.links = 1 /\ s.status = "active"
  BY <1>1, LinkedRow DEF Rows
<1>3. rows' = [rows EXCEPT ![k] = s]
  BY DEF RefreshToken
<1> HIDE DEF s
<1>5. rows'[k] = s => LinkOk(k)'
  BY <1>1, <1>2 DEF LinkOk, There
<1>6. RowsOk' /\ HomeInv' /\ \A j \in Keys : Moves(j) /\ ~Born(j)
  BY <1>1, <1>2, <1>3, <1>5, Kept DEF There
<1>7. acts' \in 0..MaxActs /\ strayed' \subseteq Keys
  BY Counted DEF RefreshToken, IInv, TypeOK, history
<1> QED
  BY <1>6, <1>7, Bare, Together DEF RefreshToken, history

LEMMA StepRevokeToken ==
  ASSUME ResourcesAssumption, IInv, NEW w \in Workers, NEW k \in Keys, RevokeToken(w, k),
         reader' = Noticed
  PROVE  IInv'
<1> DEFINE r == rows[k]  l == [r EXCEPT !.links = 0]  s == [l EXCEPT !.status = "revoked"]
<1>1. r \in Rows /\ There(k) /\ (r.cur # 0 => r.vers[r.cur] \in Kinds) /\ k[1] = "share"
  BY DEF IInv, TypeOK, RevokeToken
<1>2. /\ s \in Rows /\ s.life = r.life /\ s.slug = r.slug /\ s.platform = r.platform
      /\ s.format = r.format /\ s.home = r.home /\ s.vers = r.vers /\ s.cur = r.cur
      /\ s.links = 0 /\ s.status = "revoked"
  BY <1>1 DEF Rows
<1>3. rows' = [rows EXCEPT ![k] = s]
  BY DEF RevokeToken, IInv, TypeOK
<1> HIDE DEF s
<1>5. rows'[k] = s => LinkOk(k)'
  BY <1>1, <1>2 DEF LinkOk, There
<1>6. RowsOk' /\ HomeInv' /\ \A j \in Keys : Moves(j) /\ ~Born(j)
  BY <1>1, <1>2, <1>3, <1>5, Kept DEF There
<1>7. acts' \in 0..MaxActs /\ strayed' \subseteq Keys
  BY Counted DEF RevokeToken, IInv, TypeOK, history
<1> QED
  BY <1>6, <1>7, Bare, Together DEF RevokeToken, history

LEMMA AllGone ==
  ASSUME ResourcesAssumption, IInv, NEW ks, \A k \in ks : k \in Keys => There(k), DeleteAll(ks)
  PROVE  /\ RowsOk' /\ HomeInv' /\ \A j \in Keys : Moves(j) /\ ~Born(j)
         /\ \A j \in Keys : (j \in ks => ~There(j)') /\ (j \notin ks => rows'[j] = rows[j])
<1>1. /\ rows' \in [Keys -> Rows]
      /\ \A j \in Keys : rows'[j] = IF j \in ks THEN Deleted ELSE rows[j]
  BY BlankRow DEF DeleteAll, IInv, TypeOK
<1>2. RowsOk'
  BY <1>1, BlankRow DEF RowsOk, IInv, TypeOK
<1>3. \A j \in Keys : LinkOk(j)'
  BY <1>1, BlankRow DEF LinkOk, There, IInv, LinksAgree
<1>4. \A j \in Keys : Moves(j) /\ ~Born(j)
  BY <1>1, <1>3, BlankRow DEF Moves, Died, Born, There
<1>5. \A j \in Keys : rows'[j].home => rows[j].home /\ There(j)'
  BY <1>1, BlankRow DEF IInv, HomeInv, There
<1> QED
  BY <1>1, <1>2, <1>4, <1>5, HomesKeep, BlankRow DEF There

LEMMA StepFirstVersion ==
  ASSUME ResourcesAssumption, IInv, NEW w \in Workers, FirstVersion(w), reader' = Noticed
  PROVE  IInv'
<1>1. req[w].key \in Keys
  BY DEF IInv, TypeOK, Requests
<1>2. RowsOk' /\ HomeInv' /\ \A j \in Keys : Moves(j) /\ ~Born(j)
  BY <1>1, Versioned DEF FirstVersion, Kinds
<1>3. acts' \in 0..MaxActs /\ strayed' \subseteq Keys
  BY Counted DEF FirstVersion, IInv, TypeOK, history
<1>4. /\ req' \in [Workers -> Requests]
      /\ \A u \in Workers : req'[u] = req[u] \/ (req'[u].files = {} /\ SlugOk(u)' /\ SeenOk(u)')
  BY Ended DEF FirstVersion
<1> QED
  BY <1>2, <1>3, <1>4, Together DEF FirstVersion, history

LEMMA StepFirstVersionFails ==
  ASSUME ResourcesAssumption, IInv, NEW w \in Workers, FirstVersionFails(w), reader' = Noticed
  PROVE  IInv'
<1> DEFINE s == [req[w] EXCEPT !.pc = "rollback"]
<1>1. req[w] \in Requests /\ req[w].pc = "first"
  BY DEF IInv, TypeOK, FirstVersionFails
<1>2. s \in Requests /\ s.pc = "rollback" /\ s.files = req[w].files /\ Goto(w, s)
  BY <1>1 DEF Requests, FirstVersionFails
<1> HIDE DEF s
<1>3. /\ req' \in [Workers -> Requests] /\ req'[w] = s
      /\ \A u \in Workers \ {w} : req'[u] = req[u]
  BY <1>2, Went DEF IInv, TypeOK
<1>4. acts' \in 0..MaxActs /\ strayed' \subseteq Keys
  BY Counted DEF FirstVersionFails, IInv, TypeOK, history
<1>5. RowsOk' /\ HomeInv' /\ \A j \in Keys : Moves(j) /\ ~Born(j)
  BY SameRows DEF FirstVersionFails
<1>6. TypeOK'
  BY <1>3, <1>4, <1>5, NoticedTyped DEF IInv, TypeOK, RowsOk, FirstVersionFails, history
<1>7. LinksAgree' /\ BlueprintsFit' /\ ReaderInv'
  BY <1>5, <1>6, RowsKeep DEF FirstVersionFails, history
<1>8. RenderInv'
  BY <1>2, <1>3, <1>5, RendersKeep DEF SeenOk
<1>9. SlugInv' /\ SlugsDistinct'
  BY <1>2, <1>3, SlugsKeep DEF SlugOk, FirstVersionFails, There, history
<1>10. FormatInv'
  BY FormatsKeep DEF FirstVersionFails, There
<1>11. FileInv' /\ ListedIsOnDisk'
  BY <1>2, <1>3, FilesKeep DEF FirstVersionFails, history
<1> QED
  BY <1>5, <1>6, <1>7, <1>8, <1>9, <1>10, <1>11 DEF IInv

LEMMA StepRollbackRecord ==
  ASSUME ResourcesAssumption, IInv, NEW w \in Workers, RollbackRecord(w), reader' = Noticed
  PROVE  IInv'
<1>1. PICK k \in Keys : k = req[w].key
  BY DEF IInv, TypeOK, Requests
<1>2. RowsOk' /\ HomeInv' /\ \A j \in Keys : Moves(j) /\ ~Born(j)
  <2>1. CASE There(k)
    <3> DEFINE r == rows[k]  a == [r EXCEPT !.life = "rolled"]  b == [a EXCEPT !.links = 0]
               s == [b EXCEPT !.home = FALSE]
    <3>1. r \in Rows /\ (r.cur # 0 => r.vers[r.cur] \in Kinds)
      BY DEF IInv, TypeOK
    <3>2. /\ s \in Rows /\ s.life = "rolled" /\ ~s.home /\ s.vers = r.vers /\ s.cur = r.cur
          /\ s.links = 0
      BY <3>1 DEF Rows
    <3>3. rows' = [rows EXCEPT ![k] = s]
      BY <1>1, <2>1 DEF RollbackRecord
    <3> HIDE DEF s
    <3>4. rows'[k] = s => LinkOk(k)'
      BY <3>2 DEF LinkOk, There
    <3> QED
      BY <2>1, <3>1, <3>2, <3>3, <3>4, Kept
  <2>2. CASE ~There(k)
    BY <1>1, <2>2, SameRows DEF RollbackRecord
  <2> QED
    BY <2>1, <2>2
<1>3. acts' \in 0..MaxActs /\ strayed' \subseteq Keys
  BY Counted DEF RollbackRecord, IInv, TypeOK, history
<1>4. /\ req' \in [Workers -> Requests]
      /\ \A u \in Workers : req'[u] = req[u] \/ (req'[u].files = {} /\ SlugOk(u)' /\ SeenOk(u)')
  BY Ended DEF RollbackRecord
<1> QED
  BY <1>2, <1>3, <1>4, Together DEF RollbackRecord, history

LEMMA StepDelete ==
  ASSUME ResourcesAssumption, IInv, NEW w \in Workers, NEW k \in Keys, Delete(w, k), reader' = Noticed
  PROVE  IInv'
<1>1. RowsOk' /\ HomeInv' /\ \A j \in Keys : Moves(j) /\ ~Born(j)
  BY AllGone DEF Delete
<1>2. acts' \in 0..MaxActs /\ strayed' \subseteq Keys
  BY Counted DEF Delete, IInv, TypeOK, history
<1> QED
  BY <1>1, <1>2, Bare, Together DEF Delete, history

LEMMA StepSetHomeDefault ==
  ASSUME ResourcesAssumption, IInv, NEW w \in Workers, NEW k \in Keys, NEW on \in BOOLEAN,
         SetHomeDefault(w, k, on), reader' = Noticed
  PROVE  IInv'
<1>1. \A j \in Keys :
        /\ rows'[j] \in Rows /\ rows'[j].life = rows[j].life /\ rows'[j].slug = rows[j].slug
        /\ rows'[j].platform = rows[j].platform /\ rows'[j].format = rows[j].format
        /\ rows'[j].links = rows[j].links /\ rows'[j].status = rows[j].status
        /\ rows'[j].vers = rows[j].vers /\ rows'[j].cur = rows[j].cur
        /\ rows'[j].home = IF j = k THEN on ELSE rows[j].home /\ ~on
  <2> TAKE j \in Keys
  <2> DEFINE h == IF j = k THEN on ELSE rows[j].home /\ ~on
  <2>1. rows[j] \in Rows /\ h \in BOOLEAN
    BY DEF IInv, TypeOK, Rows
  <2>2. rows'[j] = [rows[j] EXCEPT !.home = h]
    BY DEF SetHomeDefault
  <2> HIDE DEF h
  <2>3. /\ rows'[j] \in Rows /\ rows'[j].life = rows[j].life /\ rows'[j].slug = rows[j].slug
        /\ rows'[j].platform = rows[j].platform /\ rows'[j].format = rows[j].format
        /\ rows'[j].links = rows[j].links /\ rows'[j].status = rows[j].status
        /\ rows'[j].vers = rows[j].vers /\ rows'[j].cur = rows[j].cur /\ rows'[j].home = h
    BY <2>1, <2>2 DEF Rows
  <2> QED
    BY <2>3 DEF h
<1>2. RowsOk'
  <2>1. rows' = [j \in Keys |-> rows'[j]]
    BY DEF SetHomeDefault
  <2>2. rows' \in [Keys -> Rows]
    BY <1>1, <2>1
  <2> QED
    BY <1>1, <2>2 DEF RowsOk, IInv, TypeOK
<1>3. There(k) /\ \A j \in Keys : There(j)' <=> There(j)
  BY <1>1 DEF There, SetHomeDefault
<1>4. HomeInv'
  BY <1>1, <1>3 DEF IInv, HomeInv
<1>5. ASSUME NEW j \in Keys PROVE Moves(j) /\ ~Born(j)
  <2>1. LinkOk(j)'
    BY <1>1, <1>3 DEF LinkOk, IInv, LinksAgree
  <2>2. ~Born(j)
    BY <1>3 DEF Born, There
  <2>3. CASE There(j)
    BY <1>1, <1>3, <2>1, <2>2, <2>3 DEF Moves, Written
  <2>4. CASE ~There(j)
    <3>1. j # k /\ ~rows[j].home /\ ~rows'[j].home
      BY <1>1, <1>3, <2>4 DEF IInv, HomeInv
    <3>2. rows[j] \in Rows /\ rows'[j] \in Rows
      BY <1>1 DEF IInv, TypeOK
    <3>3. rows'[j] = rows[j]
      BY <1>1, <3>1, <3>2 DEF Rows
    <3> QED
      BY <2>1, <2>2, <3>3 DEF Moves
  <2> QED
    BY <2>3, <2>4
<1>6. acts' \in 0..MaxActs /\ strayed' \subseteq Keys
  BY Counted DEF SetHomeDefault, IInv, TypeOK, history
<1> QED
  BY <1>2, <1>4, <1>5, <1>6, Bare, Together DEF SetHomeDefault, history

LEMMA StepCreateRefused ==
  ASSUME ResourcesAssumption, IInv, NEW w \in Workers, CreateRefused(w), reader' = Noticed
  PROVE  IInv'
<1>1. acts' \in 0..MaxActs /\ strayed' \subseteq Keys
  BY Counted DEF CreateRefused, IInv, TypeOK, history
<1> QED
  BY <1>1, SameRows, Ended, Together DEF CreateRefused, history

LEMMA StepGenerate ==
  ASSUME ResourcesAssumption, IInv, NEW w \in Workers, Generate(w), reader' = Noticed
  PROVE  IInv'
<1>1. PICK k \in Keys : k = req[w].key
  BY DEF IInv, TypeOK, Requests
<1>2. req[w].kind \in Kinds
  BY DEF IInv, TypeOK, Requests
<1>3. strayed' = strayed \cup {j \in {k} : j[2] # req[w].seen}
  BY <1>1 DEF Generate
<1>4. k[1] # "subscription" \/ k \in strayed' \/ req[w].kind = KindOf[rows[k].format]
  <2> SUFFICES ASSUME k[1] = "subscription", k \notin strayed' PROVE req[w].kind = KindOf[rows[k].format]
    OBVIOUS
  <2>1. k = <<"subscription", req[w].seen>>
    BY <1>3, KeyShape
  <2>2. Seen(k, req[w].kind)
    BY <1>1, <2>1 DEF IInv, RenderInv, SeenOk, Generate
  <2> QED
    BY <1>1, <2>2 DEF Seen, Generate, CreateVersion
<1>5. RowsOk' /\ HomeInv' /\ \A j \in Keys : Moves(j) /\ ~Born(j)
  BY <1>1, <1>2, <1>4, Versioned DEF Generate
<1>6. acts' \in 0..MaxActs /\ strayed' \subseteq Keys /\ strayed \subseteq strayed'
  BY <1>3, Counted DEF Generate, IInv, TypeOK
<1>7. /\ req' \in [Workers -> Requests]
      /\ \A u \in Workers : req'[u] = req[u] \/ (req'[u].files = {} /\ SlugOk(u)' /\ SeenOk(u)')
  BY Ended DEF Generate
<1> QED
  BY <1>5, <1>6, <1>7, Together DEF Generate

LEMMA StepGenerateFails ==
  ASSUME ResourcesAssumption, IInv, NEW w \in Workers, GenerateFails(w), reader' = Noticed
  PROVE  IInv'
<1>1. RowsOk' /\ HomeInv' /\ \A j \in Keys : Moves(j) /\ ~Born(j)
  BY AllGone, SameRows DEF GenerateFails
<1>2. acts' \in 0..MaxActs /\ strayed' \subseteq Keys
  BY Counted DEF GenerateFails, IInv, TypeOK, history
<1>3. /\ req' \in [Workers -> Requests]
      /\ \A u \in Workers : req'[u] = req[u] \/ (req'[u].files = {} /\ SlugOk(u)' /\ SeenOk(u)')
  BY Ended DEF GenerateFails
<1> QED
  BY <1>1, <1>2, <1>3, Together DEF GenerateFails, history

-----------------------------------------------------------------------------
(* Slugs that are checked and taken.                                       *)

LEMMA StepCheckSlug ==
  ASSUME ResourcesAssumption, IInv, NEW w \in Workers, NEW t \in Tables, NEW v \in Slugs,
         CheckSlug(w, t, v), reader' = Noticed
  PROVE  IInv'
<1> DEFINE a == [Idle EXCEPT !.pc = "checked"]  b == [a EXCEPT !.key = <<t, 1>>]
           s == [b EXCEPT !.slug = v]
<1>1. s \in Requests /\ s.pc = "checked" /\ s.slug = v /\ s.files = {} /\ Goto(w, s)
  <2>1. <<t, 1>> \in Keys /\ Idle \in Requests /\ v \in SlugsToTry /\ Idle.files = {}
    BY KeyShape, BlankRow DEF SlugsToTry
  <2> QED
    BY <2>1 DEF Requests, CheckSlug
<1> HIDE DEF s
<1>2. req' \in [Workers -> Requests] /\ req'[w] = s /\ \A u \in Workers \ {w} : req'[u] = req[u]
  BY <1>1, Went DEF IInv, TypeOK
<1>3. SlugOk(w)' /\ SeenOk(w)'
  <2>1. \A k \in Keys : There(k) => rows[k].slug # v
    BY KeyShape DEF CheckSlug, CheckSlugAvailable, SlugTaken
  <2> QED
    BY <1>1, <1>2, <2>1 DEF SlugOk, SeenOk, CheckSlug, There
<1>4. acts' \in 0..MaxActs /\ strayed' \subseteq Keys
  BY Counted DEF CheckSlug, IInv, TypeOK, history
<1> QED
  BY <1>1, <1>2, <1>3, <1>4, SameRows, Together DEF CheckSlug, history

LEMMA Inserted ==
  ASSUME ResourcesAssumption, IInv, NEW w \in Workers, NEW k \in Keys, NEW fresh \in Rows,
         NEW next \in Requests, Inserts(w, k, fresh, next), reader' = Noticed,
         fresh.life = "present", fresh.vers = NoVersions, fresh.cur = 0, ~fresh.home,
         k[1] = "subscription" =>
           /\ fresh.platform \in Ids /\ PlatformThere(fresh.platform)
           /\ SubscriptionsOf(fresh.platform) = {} /\ fresh.format = platforms[fresh.platform].format,
         k[1] # "subscription" => fresh.links = 1 /\ fresh.status = "active",
         next.files = {}, next.pc \in {"idle", "first", "ruled"},
         next.pc = "ruled" => next.key[1] # "subscription"
  PROVE  IInv'
<1>1. /\ UNCHANGED <<platforms, disk, strayed, misfiled>>
      /\ crossed' = crossed \cup {v \in {fresh.slug} : req[w].stale}
      /\ rows' = [rows EXCEPT ![k] = fresh]
  BY DEF Inserts
<1>2. rows[k].life = "unused"
  <2>1. k[2] >= k[2]
    BY KeyShape
  <2> QED
    BY <2>1 DEF Inserts, NextRow
<1>3. rows'[k] = fresh /\ \A j \in Keys : j # k => rows'[j] = rows[j]
  BY <1>1, Changed DEF IInv, TypeOK
<1>4. Moves(k)
  BY <1>2, <1>3, KeyShape DEF Moves, Born, LinkOk, There, Tables
<1>5. RowsOk' /\ \A j \in Keys : Moves(j) /\ (j # k => rows'[j] = rows[j])
  BY <1>1, <1>4, OneRow
<1>6. HomeInv'
  BY <1>2, <1>3, HomesKeep DEF IInv, HomeInv, There
<1>7. FormatInv'
  <2>1. \A j \in Keys, p \in Ids : j # k => (OfPlatform(j, p)' <=> OfPlatform(j, p))
    BY <1>3 DEF OfPlatform, There
  <2>2. \A p \in Ids : OfPlatform(k, p)' => /\ PlatformThere(p) /\ fresh.format = platforms[p].format
                                            /\ \A j \in Keys : ~OfPlatform(j, p)
    BY <1>3 DEF OfPlatform, SubscriptionsOf
  <2> QED
    BY <1>1, <1>3, <2>1, <2>2 DEF IInv, FormatInv, PlatformThere
<1>8. /\ req' \in [Workers -> Requests] /\ req'[w] = next
      /\ \A u \in Workers \ {w} :
           /\ req'[u].pc = req[u].pc /\ req'[u].key = req[u].key /\ req'[u].slug = req[u].slug
           /\ req'[u].seen = req[u].seen /\ req'[u].kind = req[u].kind /\ req'[u].files = req[u].files
           /\ ~req'[u].stale => ~req[u].stale
           /\ req[u].pc = "checked" /\ req[u].slug = fresh.slug => req'[u].stale
  <2>1. \A u \in Workers : req[u] \in Requests
    BY Known DEF IInv
  <2>2. \A u \in Workers : Outdated(w, fresh.slug)[u] \in Requests
    <3>1. \A q \in Requests : [q EXCEPT !.stale = TRUE] \in Requests
      BY DEF Requests
    <3>2. \A u \in Workers : Outdated(w, fresh.slug)[u] \in {req[u], [req[u] EXCEPT !.stale = TRUE]}
      BY DEF Outdated
    <3> QED
      BY <2>1, <3>1, <3>2
  <2>3. req' \in [Workers -> Requests] /\ req'[w] = next
    BY <2>2 DEF Inserts, Outdated
  <2>4. \A u \in Workers \ {w} : req'[u] = Outdated(w, fresh.slug)[u]
    BY DEF Inserts, Outdated
  <2> QED
    BY <2>1, <2>3, <2>4 DEF Outdated, Requests
<1>9. acts' \in 0..MaxActs /\ crossed' \subseteq SlugsToTry
  BY <1>1, Counted DEF Inserts, IInv, TypeOK, Rows
<1>10. TypeOK'
  BY <1>1, <1>5, <1>8, <1>9, NoticedTyped DEF IInv, TypeOK, RowsOk
<1>11. LinksAgree' /\ BlueprintsFit' /\ ReaderInv'
  BY <1>1, <1>5, <1>10, RowsKeep
<1>12. RenderInv'
  BY <1>5, <1>8, RendersKeep DEF SeenOk
<1>13. SlugInv'
  <2>1. SlugOk(w)'
    BY <1>8 DEF SlugOk
  <2>2. ASSUME NEW u \in Workers \ {w} PROVE SlugOk(u)'
    <3>1. SlugOk(u)
      BY DEF IInv, SlugInv
    <3> QED
      BY <1>3, <1>8, <3>1 DEF SlugOk, There
  <2> QED
    BY <2>1, <2>2 DEF SlugInv
<1>14. SlugsDistinct'
  <2>1. ASSUME NEW j \in Keys, j # k, There(j), rows[j].slug = fresh.slug
        PROVE  fresh.slug \in crossed' \cup {"auto"}
    <3>1. CASE fresh.slug = "auto"
      BY <3>1
    <3>2. CASE req[w].stale
      BY <1>1, <3>2
    <3>3. CASE fresh.slug # "auto" /\ ~req[w].stale
      <4>1. SlugOk(w) /\ req[w].pc = "checked" /\ fresh.slug = req[w].slug
        BY <3>3 DEF Inserts, IInv, SlugInv
      <4> QED
        BY <2>1, <3>3, <4>1 DEF SlugOk
    <3> QED
      BY <3>1, <3>2, <3>3
  <2>2. \A j \in Keys : j # k => (There(j)' <=> There(j)) /\ rows'[j].slug = rows[j].slug
    BY <1>3 DEF There
  <2> QED
    BY <1>1, <1>3, <2>1, <2>2 DEF IInv, SlugsDistinct
<1>15. FileInv' /\ ListedIsOnDisk'
  BY <1>1, <1>8, FilesKeep
<1> QED
  BY <1>6, <1>7, <1>10, <1>11, <1>12, <1>13, <1>14, <1>15 DEF IInv

LEMMA StepCreateSubscription ==
  ASSUME ResourcesAssumption, IInv, NEW w \in Workers, NEW k \in Keys, NEW p \in Ids,
         NEW v \in SlugsToTry, CreateSubscription(w, k, p, v), reader' = Noticed
  PROVE  IInv'
<1> DEFINE a == [Fresh(v) EXCEPT !.platform = p]  s == [a EXCEPT !.format = platforms[p].format]
<1>1. /\ s \in Rows /\ s.life = "present" /\ s.vers = NoVersions /\ s.cur = 0 /\ ~s.home
      /\ s.platform = p /\ s.format = platforms[p].format
  <2>1. platforms[p].format \in Formats
    BY DEF IInv, TypeOK
  <2>2. a \in Rows /\ a.life = "present" /\ a.vers = NoVersions /\ a.cur = 0 /\ ~a.home /\ a.platform = p
    BY FreshRow DEF Rows
  <2> HIDE DEF a
  <2> QED
    BY <2>1, <2>2 DEF Rows
<1>2. Inserts(w, k, s, Idle)
  BY DEF CreateSubscription
<1> HIDE DEF s
<1>3. k[1] = "subscription" /\ PlatformThere(p) /\ SubscriptionsOf(p) = {}
  BY DEF CreateSubscription
<1> QED
  BY <1>1, <1>2, <1>3, BlankRow, Inserted

(* A share or a rule is made with its link.                                *)
LEMMA FreshLinked ==
  ASSUME ResourcesAssumption, NEW v \in SlugsToTry
  PROVE  LET s == Linked(Fresh(v)) IN
         /\ s \in Rows /\ s.life = "present" /\ s.vers = NoVersions /\ s.cur = 0 /\ ~s.home
         /\ s.links = 1 /\ s.status = "active"
BY FreshRow, LinkedRow

LEMMA FirstRequest ==
  ASSUME ResourcesAssumption, NEW k \in Keys
  PROVE  First(k) \in Requests /\ First(k).pc = "first" /\ First(k).files = {}
BY BlankRow DEF First, Requests

LEMMA StepCreateShare ==
  ASSUME ResourcesAssumption, IInv, NEW w \in Workers, NEW k \in Keys, CreateShare(w, k),
         reader' = Noticed
  PROVE  IInv'
<1>1. "auto" \in SlugsToTry /\ k[1] = "share" /\ Inserts(w, k, Linked(Fresh("auto")), First(k))
  BY DEF CreateShare, SlugsToTry
<1> QED
  BY <1>1, FreshLinked, FirstRequest, Inserted

LEMMA StepCreateRule ==
  ASSUME ResourcesAssumption, IInv, NEW w \in Workers, NEW k \in Keys, NEW v \in SlugsToTry,
         NEW content \in BOOLEAN, CreateRule(w, k, v, content), reader' = Noticed
  PROVE  IInv'
<1>1. /\ k[1] = "rule"
      /\ Inserts(w, k, Linked(Fresh(v)), First(k)) \/ Inserts(w, k, Linked(Fresh(v)), Idle)
  BY DEF CreateRule
<1>2. CASE Inserts(w, k, Linked(Fresh(v)), First(k))
  BY <1>1, <1>2, FreshLinked, FirstRequest, Inserted
<1>3. CASE Inserts(w, k, Linked(Fresh(v)), Idle)
  BY <1>1, <1>3, FreshLinked, BlankRow, Inserted
<1> QED
  BY <1>1, <1>2, <1>3

LEMMA StepAutoRule ==
  ASSUME ResourcesAssumption, IInv, NEW w \in Workers, NEW k \in Keys, AutoRule(w, k),
         reader' = Noticed
  PROVE  IInv'
<1> DEFINE a == [Idle EXCEPT !.pc = "ruled"]  b == [a EXCEPT !.key = k]
           c == [b EXCEPT !.kind = "conf"]  s == [c EXCEPT !.seen = k[2]]
<1>1. s \in Requests /\ s.pc = "ruled" /\ s.files = {} /\ s.key = k
  <2>1. "conf" \in Kinds /\ k[2] \in Nat /\ Idle \in Requests /\ Idle.files = {}
    BY KeyShape, BlankRow DEF Kinds
  <2>2. a \in Requests /\ a.pc = "ruled" /\ a.files = {}
    BY <2>1 DEF Requests
  <2> HIDE DEF a
  <2>3. b \in Requests /\ b.pc = "ruled" /\ b.files = {} /\ b.key = k
    BY <2>2 DEF Requests
  <2> HIDE DEF b
  <2> QED
    BY <2>1, <2>3 DEF Requests
<1>2. "auto" \in SlugsToTry /\ k[1] = "rule" /\ Inserts(w, k, Linked(Fresh("auto")), s)
  BY DEF AutoRule, SlugsToTry
<1> HIDE DEF s
<1> QED
  BY <1>1, <1>2, FreshLinked, Inserted

-----------------------------------------------------------------------------
(* Generating a version.                                                   *)

(* A request that goes on to a rendering or to the row it is for.          *)
LEMMA Rendering ==
  ASSUME ResourcesAssumption, IInv, NEW w \in Workers, NEW s \in Requests, Goto(w, s),
         s.pc \in {"rendered", "resolved"}, s.files = {},
         UNCHANGED <<platforms, disk, rows, history>>, acts' \in 0..MaxActs, reader' = Noticed,
         s.pc = "rendered" \/ s.key[1] = "subscription" =>
           \E k \in Keys : k = <<"subscription", s.seen>> /\ Seen(k, s.kind)
  PROVE  IInv'
<1>1. req' \in [Workers -> Requests] /\ req'[w] = s /\ \A u \in Workers \ {w} : req'[u] = req[u]
  BY Went DEF IInv, TypeOK
<1>2. SlugOk(w)' /\ SeenOk(w)'
  BY <1>1 DEF SlugOk, SeenOk, Seen, There
<1>3. strayed' \subseteq Keys
  BY DEF IInv, TypeOK, history
<1> QED
  BY <1>1, <1>2, <1>3, SameRows, Together DEF history

LEMMA StepRender ==
  ASSUME ResourcesAssumption, IInv, NEW w \in Workers, NEW p \in Ids, NEW k \in Keys, Render(w, p, k),
         reader' = Noticed
  PROVE  IInv'
<1> DEFINE kind == KindOf[platforms[p].format]
           a == [Idle EXCEPT !.pc = "rendered"]  b == [a EXCEPT !.platform = p]
           c == [b EXCEPT !.seen = k[2]]  s == [c EXCEPT !.kind = kind]
<1>1. kind \in Kinds /\ k[2] \in Nat /\ Idle \in Requests /\ Idle.files = {}
  BY KeyShape, BlankRow DEF KindOf, Kinds, IInv, TypeOK, Formats
<1>2. OfPlatform(k, p) /\ k = <<"subscription", k[2]>> /\ Goto(w, s)
  BY KeyShape DEF Render, SubscriptionsOf, OfPlatform
<1>3. Seen(k, kind)
  BY <1>2 DEF IInv, FormatInv, OfPlatform, Seen, There
<1> HIDE DEF kind
<1>4. s \in Requests /\ s.pc = "rendered" /\ s.files = {} /\ s.seen = k[2] /\ s.kind = kind
  <2>1. a \in Requests /\ a.pc = "rendered" /\ a.files = {}
    BY <1>1 DEF Requests
  <2> HIDE DEF a
  <2>2. b \in Requests /\ b.pc = "rendered" /\ b.files = {}
    BY <2>1 DEF Requests
  <2> HIDE DEF b
  <2> QED
    BY <1>1, <2>2 DEF Requests
<1> HIDE DEF s
<1>5. acts' \in 0..MaxActs
  BY Counted DEF Render, IInv
<1> QED
  BY <1>2, <1>3, <1>4, <1>5, Rendering DEF Render

LEMMA StepResolveOwner ==
  ASSUME ResourcesAssumption, IInv, NEW w \in Workers, ResolveOwner(w), reader' = Noticed
  PROVE  IInv'
<1>1. acts' \in 0..MaxActs /\ strayed' \subseteq Keys
  BY Counted DEF ResolveOwner, IInv, TypeOK, history
<1>2. req[w] \in Requests /\ SeenOk(w) /\ req[w].pc = "rendered"
  BY Known DEF IInv, RenderInv, ResolveOwner
<1>3. CASE Ends(w)
  BY <1>1, <1>3, SameRows, Ended, Together DEF ResolveOwner, history
<1>4. ASSUME NEW k \in SubscriptionsOf(req[w].platform), Goto(w, [req[w] EXCEPT !.pc = "resolved", !.key = k])
      PROVE  IInv'
  <2> DEFINE a == [req[w] EXCEPT !.pc = "resolved"]  s == [a EXCEPT !.key = k]
  <2>1. k \in Keys
    BY DEF SubscriptionsOf
  <2>2. /\ s \in Requests /\ s.pc = "resolved" /\ s.files = req[w].files
        /\ s.seen = req[w].seen /\ s.kind = req[w].kind
    BY <1>2, <2>1 DEF Requests
  <2>3. Goto(w, s)
    BY <1>4
  <2> HIDE DEF s
  <2>4. req' \in [Workers -> Requests] /\ req'[w] = s /\ \A u \in Workers \ {w} : req'[u] = req[u]
    BY <2>2, <2>3, Went DEF IInv, TypeOK
  <2>5. RowsOk' /\ HomeInv' /\ \A j \in Keys : Moves(j) /\ ~Born(j)
    BY SameRows DEF ResolveOwner
  <2>6. TypeOK'
    BY <1>1, <2>4, <2>5, NoticedTyped DEF IInv, TypeOK, RowsOk, ResolveOwner, history
  <2>7. LinksAgree' /\ BlueprintsFit' /\ ReaderInv'
    BY <2>5, <2>6, RowsKeep DEF ResolveOwner, history
  <2>8. RenderInv'
    <3>1. SeenOk(w)'
      BY <1>2, <2>2, <2>4, <2>5, SeenKeeps DEF SeenOk
    <3> QED
      BY <2>4, <2>5, <3>1, RendersKeep
  <2>9. SlugInv' /\ SlugsDistinct'
    BY <2>2, <2>4, SlugsKeep DEF SlugOk, ResolveOwner, There, history
  <2>10. FormatInv'
    BY FormatsKeep DEF ResolveOwner, There
  <2>11. FileInv' /\ ListedIsOnDisk'
    BY <2>2, <2>4, FilesKeep DEF ResolveOwner, history
  <2> QED
    BY <2>5, <2>6, <2>7, <2>8, <2>9, <2>10, <2>11 DEF IInv
<1> QED
  BY <1>3, <1>4 DEF ResolveOwner

LEMMA StepRenderRule ==
  ASSUME ResourcesAssumption, IInv, NEW w \in Workers, NEW k \in Keys, RenderRule(w, k),
         reader' = Noticed
  PROVE  IInv'
<1> DEFINE a == [Idle EXCEPT !.pc = "resolved"]  b == [a EXCEPT !.key = k]
           c == [b EXCEPT !.kind = "conf"]  s == [c EXCEPT !.seen = k[2]]
<1>1. s \in Requests /\ s.pc = "resolved" /\ s.files = {} /\ s.key = k
  <2>1. "conf" \in Kinds /\ k[2] \in Nat /\ Idle \in Requests /\ Idle.files = {}
    BY KeyShape, BlankRow DEF Kinds
  <2>2. a \in Requests /\ a.pc = "resolved" /\ a.files = {}
    BY <2>1 DEF Requests
  <2> HIDE DEF a
  <2>3. b \in Requests /\ b.pc = "resolved" /\ b.files = {} /\ b.key = k
    BY <2>2 DEF Requests
  <2> HIDE DEF b
  <2> QED
    BY <2>1, <2>3 DEF Requests
<1>2. Goto(w, s) /\ k[1] = "rule"
  BY DEF RenderRule
<1> HIDE DEF s
<1>3. acts' \in 0..MaxActs
  BY Counted DEF RenderRule, IInv
<1> QED
  BY <1>1, <1>2, <1>3, Rendering DEF RenderRule

-----------------------------------------------------------------------------
(* Platforms and packages.                                                 *)

(* A step that leaves the rows alone.                                      *)
LEMMA RowsAlone ==
  ASSUME ResourcesAssumption, IInv, rows' = rows, UNCHANGED <<crossed, strayed>>, reader' = Noticed,
         platforms' \in [Ids -> [life : {"unused", "present", "gone"}, format : Formats,
                                 locked : BOOLEAN, list : SUBSET Files]],
         disk' \in [Files -> {"new", "there", "gone"}], misfiled' \subseteq Files,
         acts' \in 0..MaxActs, req' \in [Workers -> Requests],
         \A u \in Workers : \/ req'[u] = req[u]
                            \/ req'[u].pc \in {"idle", "unlink"},
         FormatInv', FileInv', ListedIsOnDisk'
  PROVE  IInv'
<1>1. RowsOk' /\ HomeInv' /\ \A j \in Keys : Moves(j) /\ ~Born(j)
  BY SameRows
<1>2. TypeOK'
  BY <1>1, NoticedTyped DEF IInv, TypeOK, RowsOk
<1>3. LinksAgree' /\ BlueprintsFit' /\ ReaderInv'
  BY <1>1, <1>2, RowsKeep
<1>4. RenderInv'
  BY <1>1, RendersKeep DEF SeenOk
<1>5. SlugInv' /\ SlugsDistinct'
  BY SlugsKeep DEF SlugOk, There
<1> QED
  BY <1>1, <1>2, <1>3, <1>4, <1>5 DEF IInv

PlatformRow == [life : {"unused", "present", "gone"}, format : Formats,
                locked : BOOLEAN, list : SUBSET Files]

LEMMA OnePlatform ==
  ASSUME IInv, NEW p \in Ids, NEW s \in PlatformRow, platforms' = [platforms EXCEPT ![p] = s]
  PROVE  /\ platforms' \in [Ids -> PlatformRow] /\ platforms'[p] = s
         /\ \A q \in Ids \ {p} : platforms'[q] = platforms[q]
BY DEF IInv, TypeOK, PlatformRow

LEMMA FreshPlatform ==
  ASSUME NEW life \in {"present", "gone"}
  PROVE  LET s == [NoPlatform EXCEPT !.life = life] IN
         s \in PlatformRow /\ s.life = life /\ s.list = {}
BY DEF NoPlatform, PlatformRow, Formats

LEMMA StepCreatePlatform ==
  ASSUME ResourcesAssumption, IInv, NEW w \in Workers, NEW p \in Ids, NEW f \in Formats,
         CreatePlatform(w, p, f), reader' = Noticed
  PROVE  IInv'
<1> DEFINE a == [NoPlatform EXCEPT !.life = "present"]  s == [a EXCEPT !.format = f]
<1>1. s \in PlatformRow /\ s.life = "present" /\ s.list = {} /\ s.format = f
  BY FreshPlatform DEF PlatformRow
<1>2. platforms' = [platforms EXCEPT ![p] = s]
  BY DEF CreatePlatform
<1> HIDE DEF s
<1>3. /\ platforms' \in [Ids -> PlatformRow] /\ platforms'[p] = s
      /\ \A q \in Ids \ {p} : platforms'[q] = platforms[q]
  BY <1>1, <1>2, OnePlatform
<1>4. platforms[p].life = "unused"
  BY DEF CreatePlatform, NextPlatform, Ids
<1>5. UNCHANGED <<disk, rows, req, crossed, strayed, misfiled>>
  BY DEF CreatePlatform, history
<1>6. FormatInv'
  <2>1. \A k \in Keys, q \in Ids : OfPlatform(k, q)' <=> OfPlatform(k, q)
    BY <1>5 DEF OfPlatform, There
  <2>2. \A k \in Keys : ~OfPlatform(k, p)
    BY <1>4 DEF IInv, FormatInv, PlatformThere
  <2> QED
    BY <1>3, <1>5, <2>1, <2>2 DEF IInv, FormatInv, PlatformThere
<1>7. FileInv' /\ ListedIsOnDisk'
  BY <1>1, <1>3, <1>5 DEF IInv, FileInv, ListedIsOnDisk, Doomed
<1>8. acts' \in 0..MaxActs
  BY Counted DEF CreatePlatform, IInv
<1> QED
  BY <1>3, <1>5, <1>6, <1>7, <1>8, RowsAlone DEF PlatformRow, IInv, TypeOK

LEMMA StepUpdatePlatform ==
  ASSUME ResourcesAssumption, IInv, NEW w \in Workers, NEW p \in Ids, NEW f \in Formats,
         UpdatePlatform(w, p, f), reader' = Noticed
  PROVE  IInv'
<1> DEFINE s == [platforms[p] EXCEPT !.format = f]
<1>1. s \in PlatformRow /\ s.life = platforms[p].life /\ s.list = platforms[p].list /\ s.format = f
  BY DEF PlatformRow, IInv, TypeOK
<1>2. platforms' = [platforms EXCEPT ![p] = s]
  BY DEF UpdatePlatform
<1> HIDE DEF s
<1>3. /\ platforms' \in [Ids -> PlatformRow] /\ platforms'[p] = s
      /\ \A q \in Ids \ {p} : platforms'[q] = platforms[q]
  BY <1>1, <1>2, OnePlatform
<1>5. UNCHANGED <<disk, rows, req, crossed, strayed, misfiled>>
  BY DEF UpdatePlatform, history
<1>6. FormatInv'
  <2>1. \A k \in Keys, q \in Ids : OfPlatform(k, q)' <=> OfPlatform(k, q)
    BY <1>5 DEF OfPlatform, There
  <2>2. \A k \in Keys : OfPlatform(k, p) => rows[k].format = f
    BY DEF UpdatePlatform, OfPlatform, SubscriptionsOf
  <2> QED
    BY <1>1, <1>3, <1>5, <2>1, <2>2 DEF IInv, FormatInv, PlatformThere
<1>7. FileInv' /\ ListedIsOnDisk'
  BY <1>1, <1>3, <1>5, FilesKeep
<1>8. acts' \in 0..MaxActs
  BY Counted DEF UpdatePlatform, IInv
<1> QED
  BY <1>3, <1>5, <1>6, <1>7, <1>8, RowsAlone DEF PlatformRow, IInv, TypeOK

LEMMA UnlinkRequest ==
  ASSUME ResourcesAssumption, NEW fs \in SUBSET Files
  PROVE  Unlink(fs) \in Requests /\ Unlink(fs).pc = "unlink" /\ Unlink(fs).files = fs
BY BlankRow DEF Unlink, Requests

LEMMA StepUploadInstaller ==
  ASSUME ResourcesAssumption, IInv, NEW w \in Workers, NEW p \in Ids, NEW f \in Files,
         NEW commits \in BOOLEAN, UploadInstaller(w, p, f, commits), reader' = Noticed
  PROVE  IInv'
<1>1. UNCHANGED <<rows, req, crossed, strayed, misfiled>> /\ disk[f] = "new"
  BY DEF UploadInstaller, history
<1>2. /\ disk' \in [Files -> {"new", "there", "gone"}] /\ disk'[f] = "there"
      /\ \A g \in Files \ {f} : disk'[g] = disk[g]
  BY DEF UploadInstaller, IInv, TypeOK
<1>3. /\ platforms' \in [Ids -> PlatformRow]
      /\ \A q \in Ids : /\ platforms'[q].life = platforms[q].life
                        /\ platforms'[q].format = platforms[q].format
                        /\ platforms'[q].list \subseteq platforms[q].list \cup {f}
                        /\ q # p => platforms'[q].list = platforms[q].list
  <2>1. CASE commits
    <3> DEFINE s == [platforms[p] EXCEPT !.list = @ \cup {f}]
    <3>1. /\ s \in PlatformRow /\ s.life = platforms[p].life /\ s.format = platforms[p].format
          /\ s.list = platforms[p].list \cup {f}
      BY DEF PlatformRow, IInv, TypeOK
    <3>2. platforms' = [platforms EXCEPT ![p] = s]
      BY <2>1 DEF UploadInstaller
    <3> HIDE DEF s
    <3>3. /\ platforms' \in [Ids -> PlatformRow] /\ platforms'[p] = s
          /\ \A q \in Ids \ {p} : platforms'[q] = platforms[q]
      BY <3>1, <3>2, OnePlatform
    <3> QED
      BY <3>1, <3>3
  <2>2. CASE ~commits
    BY <2>2 DEF UploadInstaller, IInv, TypeOK, PlatformRow
  <2> QED
    BY <2>1, <2>2
<1>4. \A q \in Ids : f \notin platforms[q].list /\ platforms[q].list \subseteq Files
  BY <1>1 DEF IInv, FileInv, TypeOK
<1>5. \A u \in Workers : f \notin req[u].files /\ req[u].files \subseteq Files
  BY <1>1, Known DEF IInv, FileInv, Doomed, Requests
<1>6. FormatInv'
  BY <1>1, <1>3, FormatsKeep DEF There
<1>7. ListedIsOnDisk'
  BY <1>1, <1>2, <1>3, <1>4 DEF IInv, ListedIsOnDisk
<1>8. FileInv'
  <2>1. \A q \in Ids : \A g \in platforms'[q].list : disk'[g] # "new"
    BY <1>2, <1>3, <1>4 DEF IInv, FileInv
  <2>2. ASSUME NEW u \in Workers, NEW g \in req'[u].files PROVE Doomed(g)'
    <3>1. g # f /\ Doomed(g) /\ g \in Files
      BY <1>1, <1>5, <2>2 DEF IInv, FileInv
    <3> QED
      BY <1>1, <1>2, <1>3, <3>1 DEF Doomed
  <2> QED
    BY <2>1, <2>2 DEF FileInv
<1>9. acts' \in 0..MaxActs
  BY Counted DEF UploadInstaller, IInv
<1> QED
  BY <1>1, <1>2, <1>3, <1>6, <1>7, <1>8, <1>9, RowsAlone DEF PlatformRow, IInv, TypeOK

LEMMA StepDeleteInstallerFile ==
  ASSUME ResourcesAssumption, IInv, NEW w \in Workers, NEW p \in Ids, NEW f \in Files,
         DeleteInstallerFile(w, p, f), reader' = Noticed
  PROVE  IInv'
<1>1. /\ UNCHANGED <<disk, rows, crossed, strayed>> /\ disk[f] = "there"
      /\ misfiled' = misfiled \cup {g \in {f} : \E q \in Ids \ {p} : g \in platforms[q].list}
  BY DEF DeleteInstallerFile
<1> DEFINE s == [platforms[p] EXCEPT !.list = @ \ {f}]
<1>2. /\ s \in PlatformRow /\ s.life = platforms[p].life /\ s.format = platforms[p].format
      /\ s.list = platforms[p].list \ {f}
  BY DEF PlatformRow, IInv, TypeOK
<1>3. platforms' = [platforms EXCEPT ![p] = s]
  BY DEF DeleteInstallerFile
<1> HIDE DEF s
<1>4. /\ platforms' \in [Ids -> PlatformRow] /\ platforms'[p] = s
      /\ \A q \in Ids \ {p} : platforms'[q] = platforms[q]
  BY <1>2, <1>3, OnePlatform
<1>5. Unlink({f}) \in Requests /\ Unlink({f}).pc = "unlink" /\ Unlink({f}).files = {f}
  BY UnlinkRequest
<1>6. /\ req' \in [Workers -> Requests] /\ req'[w] = Unlink({f})
      /\ \A u \in Workers \ {w} : req'[u] = req[u]
  BY <1>5, Went DEF IInv, TypeOK, DeleteInstallerFile
<1>7. FormatInv'
  BY <1>1, <1>2, <1>4, FormatsKeep DEF There
<1>8. \A q \in Ids : platforms'[q].list \subseteq platforms[q].list
  BY <1>2, <1>4
<1>9. ListedIsOnDisk'
  BY <1>1, <1>8 DEF IInv, ListedIsOnDisk
<1>10. FileInv'
  <2>1. \A q \in Ids : \A g \in platforms'[q].list : disk'[g] # "new"
    BY <1>1, <1>8 DEF IInv, FileInv
  <2>2. Doomed(f)'
    <3>1. f \in misfiled' \/ \A q \in Ids \ {p} : f \notin platforms[q].list
      BY <1>1
    <3> QED
      BY <1>1, <1>2, <1>4, <3>1 DEF Doomed
  <2>3. ASSUME NEW u \in Workers \ {w}, NEW g \in req[u].files PROVE Doomed(g)'
    <3>1. Doomed(g)
      BY DEF IInv, FileInv
    <3> QED
      BY <1>1, <1>8, <3>1 DEF Doomed
  <2> QED
    BY <1>5, <1>6, <2>1, <2>2, <2>3 DEF FileInv
<1>11. acts' \in 0..MaxActs
  BY Counted DEF DeleteInstallerFile, IInv
<1>12. misfiled' \subseteq Files /\ disk' \in [Files -> {"new", "there", "gone"}]
  BY <1>1 DEF IInv, TypeOK
<1> QED
  BY <1>1, <1>4, <1>5, <1>6, <1>7, <1>9, <1>10, <1>11, <1>12, RowsAlone DEF PlatformRow

LEMMA StepDeletePlatform ==
  ASSUME ResourcesAssumption, IInv, NEW w \in Workers, NEW p \in Ids, DeletePlatform(w, p),
         reader' = Noticed
  PROVE  IInv'
<1>1. UNCHANGED <<disk, crossed, strayed, misfiled>>
  BY DEF DeletePlatform, history
<1> DEFINE s == [NoPlatform EXCEPT !.life = "gone"]  fs == platforms[p].list
<1>2. s \in PlatformRow /\ s.list = {} /\ platforms' = [platforms EXCEPT ![p] = s]
  BY FreshPlatform DEF DeletePlatform
<1> HIDE DEF s
<1>3. /\ platforms' \in [Ids -> PlatformRow] /\ platforms'[p] = s
      /\ \A q \in Ids \ {p} : platforms'[q] = platforms[q]
  BY <1>2, OnePlatform
<1>4. fs \in SUBSET Files
  BY DEF IInv, TypeOK
<1>5. Unlink(fs) \in Requests /\ Unlink(fs).pc = "unlink" /\ Unlink(fs).files = fs
  BY <1>4, UnlinkRequest
<1>6. /\ req' \in [Workers -> Requests] /\ req'[w] = Unlink(fs)
      /\ \A u \in Workers \ {w} : req'[u] = req[u]
  BY <1>5, Went DEF IInv, TypeOK, DeletePlatform
<1>7. /\ RowsOk' /\ HomeInv' /\ \A j \in Keys : Moves(j) /\ ~Born(j)
      /\ \A j \in Keys : /\ j \in SubscriptionsOf(p) => ~There(j)'
                         /\ j \notin SubscriptionsOf(p) => rows'[j] = rows[j]
  BY AllGone DEF DeletePlatform, SubscriptionsOf
<1>8. acts' \in 0..MaxActs
  BY Counted DEF DeletePlatform, IInv
<1>9. TypeOK'
  BY <1>1, <1>3, <1>6, <1>7, <1>8, NoticedTyped DEF IInv, TypeOK, RowsOk, PlatformRow
<1>10. LinksAgree' /\ BlueprintsFit' /\ ReaderInv'
  BY <1>1, <1>7, <1>9, RowsKeep
<1>11. RenderInv'
  BY <1>5, <1>6, <1>7, RendersKeep DEF SeenOk
<1>12. \A k \in Keys : There(k)' => There(k) /\ rows'[k] = rows[k] /\ k \notin SubscriptionsOf(p)
  BY <1>7 DEF There
<1>13. SlugInv' /\ SlugsDistinct'
  BY <1>1, <1>5, <1>6, <1>12, SlugsKeep DEF SlugOk
<1>14. FormatInv'
  <2>1. \A k \in Keys, q \in Ids : OfPlatform(k, q)' => OfPlatform(k, q) /\ q # p /\ rows'[k] = rows[k]
    BY <1>12 DEF OfPlatform, SubscriptionsOf
  <2> QED
    BY <1>3, <2>1 DEF IInv, FormatInv, PlatformThere
<1>15. \A q \in Ids : platforms'[q].list \subseteq platforms[q].list
  BY <1>2, <1>3
<1>16. ListedIsOnDisk'
  BY <1>1, <1>15 DEF IInv, ListedIsOnDisk
<1>17. FileInv'
  <2>1. \A q \in Ids : \A g \in platforms'[q].list : disk'[g] # "new"
    BY <1>1, <1>15 DEF IInv, FileInv
  <2>2. ASSUME NEW g \in fs PROVE Doomed(g)'
    <3>1. disk[g] # "new" /\ \A q \in Ids \ {p} : g \notin platforms[q].list
      BY DEF IInv, FileInv, ListedIsOnDisk
    <3> QED
      BY <1>1, <1>2, <1>3, <3>1 DEF Doomed
  <2>3. ASSUME NEW u \in Workers \ {w}, NEW g \in req[u].files PROVE Doomed(g)'
    <3>1. Doomed(g)
      BY DEF IInv, FileInv
    <3> QED
      BY <1>1, <1>15, <3>1 DEF Doomed
  <2> QED
    BY <1>5, <1>6, <2>1, <2>2, <2>3 DEF FileInv
<1> QED
  BY <1>7, <1>9, <1>10, <1>11, <1>13, <1>14, <1>16, <1>17 DEF IInv

LEMMA StepRemoveFile ==
  ASSUME ResourcesAssumption, IInv, NEW w \in Workers, RemoveFile(w), reader' = Noticed
  PROVE  IInv'
<1>1. UNCHANGED <<platforms, rows, crossed, strayed, misfiled, acts>> /\ req[w] \in Requests
  BY Known DEF RemoveFile, history, IInv
<1>2. acts' \in 0..MaxActs /\ misfiled' \subseteq Files
  BY <1>1 DEF IInv, TypeOK
<1>3. platforms' \in [Ids -> PlatformRow]
  BY <1>1 DEF IInv, TypeOK, PlatformRow
<1>4. FormatInv'
  BY <1>1, FormatsKeep DEF There
<1>5. CASE Ends(w) /\ disk' = disk
  <2>1. /\ req' \in [Workers -> Requests] /\ req'[w] = Idle
        /\ \A u \in Workers \ {w} : req'[u] = req[u]
    BY <1>5, BlankRow, Went DEF Ends, IInv, TypeOK
  <2>2. FileInv' /\ ListedIsOnDisk'
    BY <1>1, <1>5, <2>1, BlankRow, FilesKeep
  <2> QED
    BY <1>1, <1>2, <1>3, <1>4, <1>5, <2>1, <2>2, BlankRow, RowsAlone DEF PlatformRow, IInv, TypeOK
<1>6. ASSUME NEW f \in req[w].files, disk' = [disk EXCEPT ![f] = "gone"],
             Goto(w, [req[w] EXCEPT !.files = @ \ {f}]), req[w].pc = "unlink"
      PROVE  IInv'
  <2> DEFINE s == [req[w] EXCEPT !.files = @ \ {f}]
  <2>1. s \in Requests /\ s.pc = "unlink" /\ s.files = req[w].files \ {f} /\ f \in Files
    BY <1>1, <1>6 DEF Requests
  <2>2. Goto(w, s)
    BY <1>6
  <2> HIDE DEF s
  <2>3. req' \in [Workers -> Requests] /\ req'[w] = s /\ \A u \in Workers \ {w} : req'[u] = req[u]
    BY <2>1, <2>2, Went DEF IInv, TypeOK
  <2>4. /\ disk' \in [Files -> {"new", "there", "gone"}] /\ disk'[f] = "gone"
        /\ \A g \in Files \ {f} : disk'[g] = disk[g]
    BY <1>6, <2>1 DEF IInv, TypeOK
  <2>5. Doomed(f)
    BY DEF IInv, FileInv
  <2>6. \A q \in Ids : platforms[q].list \subseteq Files
    BY DEF IInv, TypeOK
  <2>7. ListedIsOnDisk'
    BY <1>1, <2>4, <2>5, <2>6 DEF IInv, ListedIsOnDisk, Doomed
  <2>8. FileInv'
    <3>1. \A q \in Ids : \A g \in platforms'[q].list : disk'[g] # "new"
      BY <1>1, <2>4, <2>6 DEF IInv, FileInv
    <3>2. ASSUME NEW u \in Workers, NEW g \in req'[u].files PROVE Doomed(g)'
      <4>1. g \in req[u].files /\ g \in Files
        BY <2>1, <2>3, <3>2 DEF Requests
      <4>2. Doomed(g)
        BY <4>1 DEF IInv, FileInv
      <4> QED
        BY <1>1, <2>4, <4>1, <4>2 DEF Doomed
    <3> QED
      BY <3>1, <3>2 DEF FileInv
  <2> QED
    BY <1>1, <1>2, <1>3, <1>4, <2>1, <2>3, <2>4, <2>7, <2>8, RowsAlone DEF PlatformRow
<1> QED
  BY <1>5, <1>6 DEF RemoveFile


-----------------------------------------------------------------------------
(* Downloads, restarts and the beginning.                                  *)

(* A step that only downloads and requests take, and leaves nothing to do. *)
LEMMA OnlyReaders ==
  ASSUME ResourcesAssumption, IInv, UNCHANGED <<platforms, disk, rows, history, acts>>,
         reader' \in [Readers -> Downloads], \A r \in Readers : reader'[r] = reader[r] \/ ReaderOk(r)',
         req' \in [Workers -> Requests],
         \A u \in Workers : req'[u] = req[u] \/ req'[u] = Idle
  PROVE  IInv'
<1>1. RowsOk' /\ HomeInv' /\ \A j \in Keys : Moves(j) /\ ~Born(j)
  BY SameRows
<1>2. TypeOK'
  BY <1>1 DEF IInv, TypeOK, RowsOk, history
<1>3. LinksAgree' /\ BlueprintsFit'
  BY <1>1 DEF LinksAgree, LinkOk, Moves, BlueprintsFit, There, IInv, history
<1>4. ReaderInv'
  <2>1. \A k \in Keys : CurrentKind(k)' = CurrentKind(k)
    BY DEF CurrentKind, There
  <2>2. ASSUME NEW r \in Readers, reader'[r] = reader[r] PROVE ReaderOk(r)'
    <3>1. ReaderOk(r) /\ reader[r] \in Downloads
      BY Known DEF IInv, ReaderInv
    <3>2. PICK k \in Keys : k = reader[r].key
      BY <3>1 DEF Downloads
    <3>3. reader[r].pc = "read" => reader[r].moved \/ Fits(reader[r].kind, CurrentKind(k)')
      BY <2>1, <3>1, <3>2 DEF ReaderOk
    <3>4. reader'[r].key = k
      BY <2>2, <3>2
    <3> QED
      BY <2>2, <3>3, <3>4 DEF ReaderOk
  <2> QED
    BY <2>2 DEF ReaderInv
<1>5. RenderInv'
  BY <1>1, BlankRow, RendersKeep DEF SeenOk
<1>6. SlugInv' /\ SlugsDistinct'
  BY BlankRow, SlugsKeep DEF SlugOk, There, history
<1>7. FormatInv'
  BY FormatsKeep DEF There
<1>8. FileInv' /\ ListedIsOnDisk'
  BY BlankRow, FilesKeep DEF history
<1> QED
  BY <1>1, <1>2, <1>3, <1>4, <1>5, <1>6, <1>7, <1>8 DEF IInv

LEMMA ReadOn ==
  ASSUME IInv, NEW r \in Readers, NEW s \in Downloads, Read(r, s)
  PROVE  /\ reader' \in [Readers -> Downloads] /\ reader'[r] = s
         /\ \A q \in Readers \ {r} : reader'[q] = reader[q]
BY DEF Read, IInv, TypeOK

LEMMA SameRequests ==
  ASSUME IInv, req' = req
  PROVE  /\ req' \in [Workers -> Requests]
         /\ \A u \in Workers : req'[u] = req[u] \/ req'[u] = Idle
BY DEF IInv, TypeOK

LEMMA StepLookUp ==
  ASSUME ResourcesAssumption, IInv, NEW r \in Readers, NEW k \in Keys, LookUp(r, k)
  PROVE  IInv'
<1> DEFINE a == [Unread EXCEPT !.pc = "found"]  s == [a EXCEPT !.key = k]
<1>1. s \in Downloads /\ s.pc = "found" /\ Read(r, s)
  BY BlankRow DEF Downloads, LookUp
<1> HIDE DEF s
<1>2. ReaderOk(r)'
  BY <1>1, ReadOn DEF ReaderOk
<1>3. req' = req
  BY DEF LookUp
<1> QED
  BY <1>1, <1>2, <1>3, ReadOn, SameRequests, OnlyReaders DEF LookUp

LEMMA StepReadCurrent ==
  ASSUME ResourcesAssumption, IInv, NEW r \in Readers, ReadCurrent(r)
  PROVE  IInv'
<1>1. reader[r] \in Downloads /\ UNCHANGED <<platforms, disk, rows, req, history, acts>>
  BY Known DEF IInv, ReadCurrent
<1>2. PICK k \in Keys : k = reader[r].key
  BY <1>1 DEF Downloads
<1>3. CASE There(k) /\ rows[k].cur # 0
  <2> DEFINE kind == rows[k].vers[rows[k].cur]
             a == [reader[r] EXCEPT !.pc = "read"]  s == [a EXCEPT !.kind = kind]
  <2>1. kind \in Kinds
    BY <1>3 DEF IInv, TypeOK
  <2>2. Read(r, s)
    BY <1>2, <1>3 DEF ReadCurrent
  <2>3. Fits(kind, CurrentKind(k))
    BY <1>3, <2>1 DEF CurrentKind, Fits, Kinds
  <2>4. CurrentKind(k)' = CurrentKind(k)
    BY <1>1 DEF CurrentKind, There
  <2> HIDE DEF kind
  <2>5. s \in Downloads /\ s.pc = "read" /\ s.key = k /\ s.kind = kind
    BY <1>1, <1>2, <2>1 DEF Downloads
  <2> HIDE DEF s
  <2>6. /\ reader' \in [Readers -> Downloads] /\ reader'[r] = s
        /\ \A q \in Readers \ {r} : reader'[q] = reader[q]
    BY <2>2, <2>5, ReadOn
  <2>7. Fits(reader'[r].kind, CurrentKind(k)') /\ reader'[r].key = k
    BY <2>3, <2>4, <2>5, <2>6
  <2>8. ReaderOk(r)'
    BY <2>7 DEF ReaderOk
  <2> QED
    BY <1>1, <2>6, <2>8, SameRequests, OnlyReaders
<1>4. CASE ~(There(k) /\ rows[k].cur # 0)
  <2>1. Read(r, Unread)
    BY <1>2, <1>4 DEF ReadCurrent
  <2>2. ReaderOk(r)'
    BY <2>1, ReadOn, BlankRow DEF ReaderOk
  <2> QED
    BY <1>1, <2>1, <2>2, BlankRow, ReadOn, SameRequests, OnlyReaders
<1> QED
  BY <1>3, <1>4

LEMMA StepAnswer ==
  ASSUME ResourcesAssumption, IInv, NEW r \in Readers, Answer(r)
  PROVE  IInv'
<1>1. ReaderOk(r)'
  BY ReadOn, BlankRow DEF Answer, ReaderOk
<1>2. req' = req
  BY DEF Answer
<1> QED
  BY <1>1, <1>2, BlankRow, ReadOn, SameRequests, OnlyReaders DEF Answer

LEMMA StepCrash ==
  ASSUME ResourcesAssumption, IInv, Crash
  PROVE  IInv'
<1>1. reader' \in [Readers -> Downloads] /\ \A r \in Readers : ReaderOk(r)'
  BY BlankRow DEF Crash, ReaderOk
<1>2. req' \in [Workers -> Requests] /\ \A u \in Workers : req'[u] = Idle
  BY BlankRow DEF Crash
<1> QED
  BY <1>1, <1>2, OnlyReaders DEF Crash

LEMMA StepStutter ==
  ASSUME ResourcesAssumption, IInv, UNCHANGED vars
  PROVE  IInv'
<1>1. UNCHANGED <<platforms, disk, rows, history, acts>> /\ req' = req /\ reader' = reader
  BY DEF vars, history
<1>2. reader' \in [Readers -> Downloads]
  BY <1>1 DEF IInv, TypeOK
<1> QED
  BY <1>1, <1>2, SameRequests, OnlyReaders

LEMMA Begun ==
  ASSUME ResourcesAssumption, Init
  PROVE  IInv
<1>1. PICK f \in Formats, kind \in {"upload", "generated"} :
        /\ platforms = [i \in Ids |-> IF i > 1 THEN NoPlatform
                                       ELSE [NoPlatform EXCEPT !.life = "present", !.format = f,
                                                               !.locked = f = "yaml"]]
        /\ rows = [k \in Keys |-> IF k # <<"subscription", 1>> THEN NoRow
                     ELSE Published([Fresh("auto") EXCEPT !.platform = 1, !.format = f], 1,
                                    IF kind = "upload" THEN kind ELSE KindOf[f], TRUE)]
  BY DEF Init
<1> DEFINE k1 == <<"subscription", 1>>
           a == [Fresh("auto") EXCEPT !.platform = 1]  b == [a EXCEPT !.format = f]
           made == IF kind = "upload" THEN kind ELSE KindOf[f]
           s == Published(b, 1, made, TRUE)
           c == [NoPlatform EXCEPT !.life = "present"]  d == [c EXCEPT !.format = f]
           p1 == [d EXCEPT !.locked = f = "yaml"]
<1>2. k1 \in Keys /\ 1 \in Ids /\ 1 \in Numbers /\ MaxRows["platform"] \in Nat
  BY KeyShape DEF Tables, Ids, Numbers, ResourcesAssumption
<1>3. made \in Kinds /\ made \in {"upload", KindOf[f]}
  BY DEF Kinds, KindOf, Formats
<1>4. /\ b \in Rows /\ b.life = "present" /\ b.platform = 1 /\ b.format = f /\ b.links = 0
      /\ ~b.home /\ b.vers = NoVersions /\ b.cur = 0
  <2>1. "auto" \in SlugsToTry
    BY DEF SlugsToTry
  <2>2. /\ a \in Rows /\ a.life = "present" /\ a.platform = 1 /\ a.links = 0
        /\ ~a.home /\ a.vers = NoVersions /\ a.cur = 0
    BY <1>2, <2>1, FreshRow DEF Rows
  <2> HIDE DEF a
  <2> QED
    BY <2>2 DEF Rows
<1> HIDE DEF b, made
<1>5. /\ s \in Rows /\ s.life = "present" /\ s.platform = 1 /\ s.format = f /\ s.links = 0
      /\ ~s.home /\ s.vers[1] = made /\ s.cur = 1
      /\ \A n \in Numbers \ {1} : s.vers[n] = "none"
  <2>1. 1 \in Numbers /\ TRUE \in BOOLEAN /\ \A n \in Numbers : b.vers[n] = "none"
    BY <1>2, <1>4 DEF NoVersions
  <2>2. /\ s \in Rows
        /\ s.life = b.life /\ s.platform = b.platform /\ s.format = b.format
        /\ s.links = b.links /\ s.home = b.home
        /\ s.vers[1] = made /\ \A m \in Numbers \ {1} : s.vers[m] = b.vers[m]
        /\ s.cur = 1
    BY <1>3, <1>4, <2>1 DEF Published, Rows
  <2> HIDE DEF s
  <2> QED
    BY <1>4, <2>1, <2>2
<1>6. \A k \in Keys : rows[k] = IF k # k1 THEN NoRow ELSE s
  BY <1>1 DEF b, made
<1> HIDE DEF s
<1>7. p1 \in PlatformRow /\ p1.life = "present" /\ p1.list = {} /\ p1.format = f
  <2>1. c \in PlatformRow /\ c.life = "present" /\ c.list = {}
    BY FreshPlatform
  <2> HIDE DEF c
  <2>2. d \in PlatformRow /\ d.life = "present" /\ d.list = {} /\ d.format = f
    BY <2>1 DEF PlatformRow
  <2> HIDE DEF d
  <2>3. (f = "yaml") \in BOOLEAN
    OBVIOUS
  <2> QED
    BY <2>2, <2>3 DEF PlatformRow
<1>8. \A i \in Ids : platforms[i] = IF i = 1 THEN p1 ELSE NoPlatform
  BY <1>1, <1>2 DEF Ids
<1> HIDE DEF p1, k1
<1>9. NoPlatform \in PlatformRow /\ NoPlatform.list = {}
  BY DEF NoPlatform, PlatformRow, Formats
<1>10. /\ \A w \in Workers : req[w] = Idle
       /\ \A r \in Readers : reader[r] = Unread
       /\ req \in [Workers -> Requests] /\ reader \in [Readers -> Downloads]
  BY BlankRow DEF Init
<1>11. TypeOK
  <2>1. platforms \in [Ids -> PlatformRow]
    BY <1>1, <1>7, <1>8, <1>9
  <2>2. rows \in [Keys -> Rows]
    BY <1>1, <1>5, <1>6, BlankRow
  <2>3. \A k \in Keys : rows[k].cur # 0 => rows[k].vers[rows[k].cur] \in Kinds
    BY <1>3, <1>5, <1>6, BlankRow
  <2>4. acts \in 0..MaxActs /\ disk \in [Files -> {"new", "there", "gone"}]
    BY DEF Init, ResourcesAssumption
  <2> QED
    BY <1>10, <2>1, <2>2, <2>3, <2>4 DEF TypeOK, PlatformRow, Init
<1>12. \A k \in Keys : There(k) => k = k1
  BY <1>6, BlankRow DEF There
<1>13. LinksAgree
  BY <1>5, <1>6, <1>12, BlankRow DEF LinksAgree, There, k1
<1>14. SlugsDistinct /\ SlugInv /\ RenderInv /\ ReaderInv
  BY <1>10, <1>12, BlankRow DEF SlugsDistinct, SlugInv, SlugOk, RenderInv, SeenOk, ReaderInv, ReaderOk
<1>15. HomeInv
  BY <1>5, <1>6, BlankRow DEF HomeInv
<1>16. FormatInv
  BY <1>2, <1>5, <1>6, <1>7, <1>8, <1>12 DEF FormatInv, OfPlatform, PlatformThere
<1>17. ListedIsOnDisk /\ FileInv
  BY <1>7, <1>8, <1>9, <1>10, BlankRow DEF ListedIsOnDisk, FileInv
<1>18. BlueprintsFit
  BY <1>3, <1>5, <1>6, <1>12 DEF BlueprintsFit
<1> QED
  BY <1>11, <1>13, <1>14, <1>15, <1>16, <1>17, <1>18 DEF IInv

LEMMA Managed ==
  ASSUME ResourcesAssumption, IInv, NEW w \in Workers, Manage(w), reader' = Noticed
  PROVE  IInv'
BY StepUpload, StepSwitchVersion, StepDeleteVersion, StepCheckSlug, StepCreateSubscription,
   StepCreateShare, StepRefreshToken, StepRevokeToken, StepDelete, StepCreateRule,
   StepSetHomeDefault, StepCreateRefused, StepFirstVersion, StepFirstVersionFails,
   StepRollbackRecord DEF Manage

LEMMA Deployed ==
  ASSUME ResourcesAssumption, IInv, NEW w \in Workers, Deploy(w), reader' = Noticed
  PROVE  IInv'
BY StepCreatePlatform, StepUpdatePlatform, StepDeletePlatform, StepUploadInstaller,
   StepDeleteInstallerFile, StepRemoveFile, StepRender, StepRenderRule, StepAutoRule,
   StepResolveOwner, StepGenerate, StepGenerateFails DEF Deploy

LEMMA NextKeeps ==
  ASSUME ResourcesAssumption, IInv, [Next]_vars
  PROVE  IInv'
BY Managed, Deployed, StepLookUp, StepReadCurrent, StepAnswer, StepCrash, StepStutter DEF Next

-----------------------------------------------------------------------------
(* The invariant: links, slugs, defaults, formats and packages agree with  *)
(* the rows, and requests and downloads under way with what they have      *)
(* checked, seen and read.                                                 *)
THEOREM Invariance == Spec => []IInv
<1>1. Init => IInv
  BY ResourcesAssumption, Begun
<1>2. IInv /\ [Next]_vars => IInv'
  BY ResourcesAssumption, NextKeeps
<1> QED
  BY <1>1, <1>2, PTL DEF Spec

(* Every variable keeps its type, and no row loses its current version.    *)
THEOREM Typed == Spec => []TypeOK
<1>1. IInv => TypeOK
  BY DEF IInv
<1> QED
  BY <1>1, Invariance, PTL

(* A set without two elements has at most one.                             *)
LEMMA AtMostOne ==
  ASSUME NEW S, \A x, y \in S : x = y
  PROVE  Cardinality(S) <= 1
<1>1. CASE S = {}
  BY <1>1, FS_EmptySet
<1>2. CASE S # {}
  <2>1. PICK x \in S : TRUE
    BY <1>2
  <2>2. S = {x}
    BY <2>1
  <2> QED
    BY <2>2, FS_Singleton
<1> QED
  BY <1>1, <1>2

(* However many requests of several transactions interleave, fail half-way *)
(* or are cut off, links, slugs, the home page's rule, formats and         *)
(* packages agree with the rows.                                           *)
THEOREM RecordsKeep == Spec => []RecordsAgree
<1>1. ASSUME IInv PROVE RecordsAgree
  <2>1. OneHomeDefault
    <3>1. Cardinality({k \in Keys : rows[k].home}) <= 1
      BY <1>1, AtMostOne DEF IInv, HomeInv
    <3> QED
      BY <1>1, <3>1 DEF IInv, HomeInv, OneHomeDefault
  <2>2. FormatsAgree
    <3> SUFFICES ASSUME NEW p \in Ids
                 PROVE  /\ Cardinality(SubscriptionsOf(p)) <= 1
                        /\ \A k \in SubscriptionsOf(p) :
                             PlatformThere(p) /\ rows[k].format = platforms[p].format
      BY DEF FormatsAgree
    <3>1. \A k \in SubscriptionsOf(p) : k \in Keys /\ OfPlatform(k, p)
      BY DEF SubscriptionsOf, OfPlatform
    <3>2. \A j, k \in SubscriptionsOf(p) : j = k
      BY <1>1, <3>1 DEF IInv, FormatInv
    <3> QED
      BY <1>1, <3>1, <3>2, AtMostOne DEF IInv, FormatInv
  <2> QED
    BY <1>1, <2>1, <2>2 DEF IInv, RecordsAgree
<1> QED
  BY <1>1, Invariance, PTL

(* A generated version fits the subscription it lands in, and a download   *)
(* answers with a version as it is meant to be served, unless the current  *)
(* version moved meanwhile.                                                *)
THEOREM ServesWhole == Spec => ServedWhole
<1>1. IInv => BlueprintsFit
  BY DEF IInv
<1>2. IInv => \A r \in Readers :
                Answer(r) => Fits(reader[r].kind, CurrentKind(reader[r].key)) \/ reader[r].moved
  BY DEF IInv, ReaderInv, ReaderOk, Answer
<1>3. Spec => []BlueprintsFit
  BY <1>1, Invariance, PTL
<1>4. Spec => AnswersWhole
  BY <1>2, Invariance, PTL DEF AnswersWhole
<1> QED
  BY <1>3, <1>4 DEF ServedWhole
==============================================================================
