---------------------------- MODULE VersionChain ----------------------------
(***************************************************************************)
(* What internal/version promises of ONE resource (a subscription, a rule, *)
(* a custom subscription or a share): a short chain of numbered versions   *)
(* with one of them current.  Nothing here knows of files, symlinks,       *)
(* transactions or handlers; VersionStore does, and implements this.       *)
(***************************************************************************)
EXTENDS Naturals, FiniteSets

CONSTANTS
  Numbers,      \* the version numbers in use
  MaxVersions   \* how many versions a resource keeps

VARIABLES
  life,      \* "absent", "present" or "gone": the row of the resource
  chain,     \* numbers of the versions the resource has
  current    \* the distributed version, 0 when there is none

vars == <<life, chain, current>>

Init ==
  /\ life = "absent"
  /\ chain = {}
  /\ current = 0

Open ==
  /\ life = "absent"
  /\ life' = "present"
  /\ UNCHANGED <<chain, current>>

\* A version joins with a number above every existing one; the first one becomes
\* current by itself.  What makes room is the oldest of the others, never the current one.
Add(n, activate) ==
  /\ life = "present"
  /\ \A k \in chain : k < n
  /\ current' = IF current = 0 \/ activate THEN n ELSE current
  /\ chain' \subseteq chain \cup {n}
  /\ {n, current'} \subseteq chain'
  /\ Cardinality(chain') <= MaxVersions
  /\ \A d \in chain \ chain', k \in chain' \ {current'} : d < k
  /\ chain \subseteq chain' \/ Cardinality(chain) = MaxVersions
  /\ UNCHANGED life

Switch(n) ==
  /\ n \in chain
  /\ current' = n
  /\ UNCHANGED <<life, chain>>

Remove(n) ==
  /\ n \in chain \ {current}
  /\ chain' = chain \ {n}
  /\ UNCHANGED <<life, current>>

Close ==
  /\ life = "present"
  /\ life' = "gone"
  /\ chain' = {}
  /\ current' = 0

Next ==
  \/ Open
  \/ \E n \in Numbers, activate \in BOOLEAN : Add(n, activate)
  \/ \E n \in chain : Switch(n) \/ Remove(n)
  \/ Close

Spec == Init /\ [][Next]_vars
=============================================================================
