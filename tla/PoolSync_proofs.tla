-------------------------- MODULE PoolSync_proofs --------------------------
(***************************************************************************)
(* Proofs about PoolSync, for any contents, any number of sources, tasks   *)
(* and runners, and both services.                                         *)
(***************************************************************************)
EXTENDS PoolSync, FiniteSetTheorems, TLAPS

\* The tasks and what the pool shows of them, through a restart.
TaskInv ==
  /\ \A t, u \in DOMAIN tasks : Running(t) /\ Running(u) => t = u
  /\ (\E t \in DOMAIN tasks : Running(t)) => shown = "running"
  /\ proc = "up" /\ shown = "running" => \E t \in DOMAIN tasks : Running(t)
  /\ shown = "running" => \E t \in DOMAIN tasks : Running(t) \/ tasks[t].restarted
  /\ proc = "booting" => \A t \in DOMAIN tasks : ~Running(t)

\* A task that runs has a runner that will end it, and a runner that may still write has a
\* task that runs, or its pool is gone.
RunnerInv ==
  /\ \A t \in Tasks : Alive(t) => t <= given.task /\ proc = "up"
  /\ \A t \in Tasks : runner[t].pc = "finish" => runner[t].verdict \in {"succeeded", "partial", "failed"}
  /\ proc = "up" => \A t \in DOMAIN tasks : Running(t) => runner[t].pc \notin {"away", "exit"} \/ t \in lost
  /\ \A t \in Tasks :
       runner[t].pc \notin {"away", "exit"} /\ (~stopped[t] \/ runner[t].pc = "writing") =>
         Running(t) \/ life = "gone"

\* What can be cancelled has a runner, and cancelling reaches the runner before the task.
CancelInv ==
  /\ \A v \in Services : \A t \in cancels[v] :
       runner[t].by = v /\ runner[t].pc \notin {"away", "committed"}
  /\ canceller # 0 => /\ canceller <= given.task /\ proc = "up"
                      /\ stopped[canceller] \/ runner[canceller].pc = "away"

\* The rules that come from a snapshot a source names are those of its content, a manual
\* entry is one that was typed, and no two sources name the same snapshot.
Stems(snap) ==
  /\ snap.id = 0 => snap = NoSnap
  /\ snap.id # 0 => \A q \in Rules : q \in snap.content.rules <=> [rule |-> q, snap |-> snap.id] \in origins

OriginInv ==
  /\ \A q \in Rules : q \in typed <=> [rule |-> q, snap |-> 0] \in origins
  /\ typed \subseteq Rules
  /\ \A s \in DOMAIN sources : Stems(sources[s].active) /\ Stems(sources[s].pending)
  /\ \A s, u \in DOMAIN sources : s # u =>
       \A x \in {sources[s].active.id, sources[s].pending.id} :
         x # 0 => x \notin {sources[u].active.id, sources[u].pending.id}

IInv == TypeOK /\ TaskInv /\ RunnerInv /\ CancelInv /\ PendingFacesActive /\ OriginInv

-----------------------------------------------------------------------------
\* Types

LifeT ==
  /\ life \in {"absent", "present", "gone"} /\ shown \in Statuses \cup {""}
  /\ proc \in {"up", "down", "booting"} /\ faults \in 0..MaxFaults
GivenT == given \in [task : 0..MaxTasks, source : 0..MaxSources, snap : 0..MaxSnaps]
TasksT ==
  /\ DOMAIN tasks \subseteq 1..given.task
  /\ tasks \in [DOMAIN tasks -> [status : Statuses, restarted : BOOLEAN]]
SourcesT ==
  /\ DOMAIN sources \subseteq 1..given.source
  /\ sources \in [DOMAIN sources -> [active : Snaps, pending : Snaps]]
RunnerRow(n) ==
  [pc : Pcs, by : Services \cup {"http"}, todo : SUBSET (1..n), ok : BOOLEAN, any : BOOLEAN,
   all : BOOLEAN, verdict : Statuses \cup {""}]
RunnerT == runner \in [Tasks -> RunnerRow(given.source)]
HandlesT ==
  /\ stopped \in [Tasks -> BOOLEAN] /\ cancels \in [Services -> SUBSET Tasks]
  /\ canceller \in 0..MaxTasks /\ lost \subseteq Tasks
OriginsT == origins \subseteq [rule : canonical, snap : 0..given.snap] /\ canonical \subseteq Rules
GoneT == life # "present" => DOMAIN tasks = {} /\ DOMAIN sources = {} /\ origins = {} /\ shown = ""

Parts ==
  /\ LifeT /\ GivenT /\ TasksT /\ SourcesT /\ RunnerT /\ HandlesT /\ OriginsT /\ GoneT
  /\ TaskInv /\ RunnerInv /\ CancelInv /\ PendingFacesActive /\ OriginInv

LEMMA Types ==
  TypeOK <=> LifeT /\ GivenT /\ TasksT /\ SourcesT /\ RunnerT /\ HandlesT /\ OriginsT /\ GoneT
<1>1. (life # "present" => DOMAIN tasks \cup DOMAIN sources \cup origins = {} /\ shown = "") <=> GoneT
  BY DEF GoneT
<1> QED
  BY <1>1 DEF TypeOK, LifeT, GivenT, TasksT, SourcesT, RunnerT, RunnerRow, HandlesT, OriginsT

LEMMA Bounds ==
  MaxTasks \in Nat /\ MaxSources \in Nat /\ MaxSnaps \in Nat /\ MaxFaults \in Nat /\ MaxUrls \in Nat
  BY PoolAssumption

LEMMA ContentRules == \A c \in Contents \cup {Nothing} : c.rules \subseteq Rules
<1>1. \A c \in Contents : c.rules \subseteq Rules
  BY PoolAssumption
<1>2. Nothing.rules = {}
  BY DEF Nothing
<1> QED
  BY <1>1, <1>2

LEMMA GivenFields ==
  ASSUME GivenT
  PROVE  /\ given.task \in 0..MaxTasks /\ given.source \in 0..MaxSources /\ given.snap \in 0..MaxSnaps
         /\ given.task \in Nat /\ given.source \in Nat /\ given.snap \in Nat
         /\ 1..given.task \subseteq Tasks
  BY Bounds DEF GivenT, Tasks

LEMMA SnapFields ==
  ASSUME SourcesT, GivenT, NEW s \in DOMAIN sources
  PROVE  /\ sources[s].active \in Snaps /\ sources[s].pending \in Snaps
         /\ sources[s].active.id \in Nat /\ sources[s].pending.id \in Nat
         /\ sources[s].active.id <= given.snap /\ sources[s].pending.id <= given.snap
         /\ sources[s] = [active |-> sources[s].active, pending |-> sources[s].pending]
         /\ sources[s].active.content.rules \subseteq Rules
         /\ sources[s].pending.content.rules \subseteq Rules
<1>1. sources[s] \in [active : Snaps, pending : Snaps]
  BY DEF SourcesT
<1>2. \A x \in Snaps : x.id \in Nat /\ x.id <= given.snap /\ x.content.rules \subseteq Rules
  BY GivenFields, ContentRules DEF Snaps
<1> QED
  BY <1>1, <1>2

\* A numbering that goes on keeps the types that depend on it.
LEMMA Numbered ==
  ASSUME GivenT, given' = given \/ (given'.source = given.source /\ given'.task = given.task)
         \/ given'.snap = given.snap,
         given'.task >= given.task, given'.source >= given.source, given'.snap >= given.snap, GivenT'
  PROVE  /\ Snaps \subseteq Snaps' /\ 1..given.task \subseteq 1..given'.task
         /\ 1..given.source \subseteq 1..given'.source /\ 0..given.snap \subseteq 0..given'.snap
         /\ RunnerRow(given.source) \subseteq RunnerRow(given'.source)
<1>1. /\ given.task \in Nat /\ given.source \in Nat /\ given.snap \in Nat
      /\ given'.task \in Nat /\ given'.source \in Nat /\ given'.snap \in Nat
  BY Bounds DEF GivenT
<1>2. /\ 1..given.task \subseteq 1..given'.task /\ 1..given.source \subseteq 1..given'.source
      /\ 0..given.snap \subseteq 0..given'.snap
  BY <1>1
<1> QED
  BY <1>2 DEF Snaps, RunnerRow

-----------------------------------------------------------------------------
LEMMA InitParts == Init => Parts
<1> SUFFICES ASSUME Init PROVE Parts
  OBVIOUS
<1>1. /\ tasks = [t \in {} |-> Nothing] /\ DOMAIN tasks = {}
      /\ runner = [t \in Tasks |-> Away] /\ stopped = [t \in Tasks |-> FALSE]
      /\ cancels = [v \in Services |-> {}] /\ canceller = 0 /\ proc = "up" /\ faults = 0 /\ lost = {}
      /\ shown \in {"", "succeeded"}
  BY DEF Init
<1>2. LifeT
  <2>1. life \in {"absent", "present"}
    BY DEF Init
  <2>2. 0 \in 0..MaxFaults
    BY Bounds
  <2> QED
    BY <1>1, <2>1, <2>2 DEF LifeT, Statuses
<1>3. RunnerT /\ HandlesT
  <2>1. Away \in RunnerRow(given.source)
    BY DEF Away, RunnerRow, Pcs
  <2>2. RunnerT
    BY <1>1, <2>1 DEF RunnerT
  <2>3. HandlesT
    <3>1. 0 \in 0..MaxTasks
      BY Bounds
    <3> QED
      BY <1>1, <3>1 DEF HandlesT
  <2> QED
    BY <2>2, <2>3
<1>4. TasksT
  BY <1>1 DEF TasksT
<1>5. TaskInv
  BY <1>1 DEF TaskInv
<1>6. RunnerInv /\ CancelInv
  <2>1. \A t \in Tasks : runner[t].pc = "away"
    BY <1>1 DEF Away
  <2> QED
    BY <1>1, <2>1 DEF RunnerInv, CancelInv, Alive
<1>7. GivenT /\ SourcesT /\ OriginsT /\ GoneT /\ PendingFacesActive /\ OriginInv
  <2>1. CASE /\ life = "absent" /\ shown = "" /\ sources = [s \in {} |-> Nothing]
             /\ canonical = {} /\ origins = {} /\ typed = {}
             /\ given = [task |-> 0, source |-> 0, snap |-> 0]
    <3>1. GivenT
      <4>1. 0 \in 0..MaxTasks /\ 0 \in 0..MaxSources /\ 0 \in 0..MaxSnaps
        BY Bounds
      <4> QED
        BY <2>1, <4>1 DEF GivenT
    <3>2. SourcesT /\ OriginsT
      BY <2>1 DEF SourcesT, OriginsT
    <3>3. GoneT
      BY <1>1, <2>1 DEF GoneT
    <3>4. PendingFacesActive /\ OriginInv
      BY <2>1 DEF PendingFacesActive, OriginInv
    <3> QED
      BY <3>1, <3>2, <3>3, <3>4
  <2>2. ASSUME NEW c \in Contents, MaxSources > 0, MaxSnaps > 0, life = "present",
               sources = [s \in {1} |-> [active |-> [id |-> 1, content |-> c, vs |-> 0], pending |-> NoSnap]],
               canonical = c.rules, origins = Origins(c.rules, 1), typed = {},
               given = [task |-> 0, source |-> 1, snap |-> 1]
        PROVE  GivenT /\ SourcesT /\ OriginsT /\ GoneT /\ PendingFacesActive /\ OriginInv
    <3>1. GivenT /\ GoneT
      BY <2>2, Bounds DEF GivenT, GoneT
    <3>2. SourcesT
      BY <2>2 DEF SourcesT, Snaps, NoSnap
    <3>3. OriginsT
      BY <2>2, ContentRules DEF OriginsT, Origins
    <3>4. /\ DOMAIN sources = {1} /\ sources[1].active.id = 1 /\ sources[1].active.content = c
          /\ sources[1].pending = NoSnap
      BY <2>2
    <3>5. \A q \in Rules : q \in c.rules <=> [rule |-> q, snap |-> 1] \in origins
      BY <2>2 DEF Origins
    <3>6. \A q \in Rules : [rule |-> q, snap |-> 0] \notin origins
      <4>1. \A o \in origins : o.snap = 1
        BY <2>2 DEF Origins
      <4> QED
        BY <4>1
    <3>7. PendingFacesActive
      BY <3>4 DEF PendingFacesActive
    <3>8. OriginInv
      BY <2>2, <3>4, <3>5, <3>6 DEF OriginInv, Stems, NoSnap
    <3> QED
      BY <3>1, <3>2, <3>3, <3>7, <3>8
  <2> QED
    BY <2>1, <2>2 DEF Init
<1> QED
  BY <1>2, <1>3, <1>4, <1>5, <1>6, <1>7 DEF Parts

-----------------------------------------------------------------------------
\* Frames: what a step leaves alone keeps the parts of the invariant that are about it.

LEMMA LifeFrame ==
  ASSUME Parts, UNCHANGED <<life, shown, tasks, proc>>, faults' \in 0..MaxFaults
  PROVE  LifeT' /\ TaskInv'
  BY DEF Parts, LifeT, TaskInv, Running

LEMMA ContentFrame ==
  ASSUME Parts, UNCHANGED <<sources, origins, canonical, typed>>,
         given'.source = given.source, given'.snap >= given.snap, GivenT'
  PROVE  SourcesT' /\ OriginsT' /\ PendingFacesActive' /\ OriginInv'
<1> USE DEF Parts
<1>1. /\ given.snap \in Nat /\ given'.snap \in Nat
  BY Bounds DEF GivenT
<1>2. Snaps \subseteq Snaps' /\ 0..given.snap \subseteq 0..given'.snap
  BY <1>1 DEF Snaps
<1>3. SourcesT'
  BY <1>2 DEF SourcesT
<1>4. OriginsT'
  BY <1>2 DEF OriginsT
<1>5. PendingFacesActive' /\ OriginInv'
  BY DEF PendingFacesActive, OriginInv, Stems
<1> QED
  BY <1>3, <1>4, <1>5

\* A step of the handlers that leaves memory alone, and ends no task but by deleting the pool.
LEMMA MemoryFrame ==
  ASSUME Parts, UNCHANGED <<memory, proc, lost>>, GivenT',
         given'.task = given.task, given'.source >= given.source,
         \A t \in Tasks : Running(t)' => Running(t),
         \A t \in Tasks : Running(t) => Running(t)' \/ life' = "gone",
         DOMAIN tasks' \subseteq DOMAIN tasks, life = "gone" => life' = "gone"
  PROVE  RunnerT' /\ HandlesT' /\ RunnerInv' /\ CancelInv'
<1> USE DEF Parts
<1>1. UNCHANGED <<runner, stopped, cancels, canceller, proc, lost>>
  BY DEF memory
<1>2. given.source \in Nat /\ given'.source \in Nat /\ DOMAIN tasks \subseteq Tasks
  BY Bounds, GivenFields DEF GivenT, TasksT
<1>3. RunnerRow(given.source) \subseteq RunnerRow(given'.source)
  <2>1. 1..given.source \subseteq 1..given'.source
    BY <1>2
  <2> QED
    BY <2>1 DEF RunnerRow
<1>4. RunnerT'
  BY <1>1, <1>3 DEF RunnerT
<1>5. HandlesT' /\ CancelInv'
  BY <1>1 DEF HandlesT, CancelInv
<1>6. RunnerInv'
  <2>1. \A t \in Tasks : Alive(t)' => t <= given'.task /\ proc' = "up"
    BY <1>1 DEF RunnerInv, Alive
  <2>2. \A t \in Tasks : runner'[t].pc = "finish" => runner'[t].verdict \in {"succeeded", "partial", "failed"}
    BY <1>1 DEF RunnerInv
  <2>3. ASSUME proc' = "up", NEW t \in DOMAIN tasks', Running(t)'
        PROVE  runner'[t].pc \notin {"away", "exit"} \/ t \in lost'
    <3>1. t \in DOMAIN tasks /\ t \in Tasks /\ Running(t)
      BY <1>2, <2>3
    <3> QED
      BY <1>1, <2>3, <3>1 DEF RunnerInv
  <2>4. ASSUME NEW t \in Tasks,
               runner'[t].pc \notin {"away", "exit"} /\ (~stopped'[t] \/ runner'[t].pc = "writing")
        PROVE  Running(t)' \/ life' = "gone"
    <3>1. Running(t) \/ life = "gone"
      BY <1>1, <2>4 DEF RunnerInv
    <3> QED
      BY <3>1
  <2> QED
    BY <2>1, <2>2, <2>3, <2>4 DEF RunnerInv
<1> QED
  BY <1>4, <1>5, <1>6

\* A runner goes on: what its next place has to satisfy.
LEMMA RunnerMoves ==
  ASSUME Parts, NEW t \in Tasks, NEW row \in RunnerRow(given.source), Step(t, row),
         UNCHANGED <<life, tasks, proc, stopped, cancels, canceller>>,
         given'.task = given.task, given'.source = given.source,
         lost \subseteq lost', lost' \subseteq Tasks,
         runner[t].pc \notin {"away", "committed", "exit"},
         row.pc \notin {"away", "committed"}, row.by = runner[t].by,
         row.pc = "finish" => row.verdict \in {"succeeded", "partial", "failed"},
         row.pc = "exit" => ~Running(t) \/ t \in lost',
         row.pc = "writing" => ~stopped[t] \/ runner[t].pc = "writing"
  PROVE  RunnerT' /\ HandlesT' /\ RunnerInv' /\ CancelInv'
<1> USE DEF Parts
<1>1. /\ runner'[t] = row
      /\ \A u \in Tasks : u # t => runner'[u] = runner[u]
      /\ RunnerT'
  BY DEF Step, RunnerT
<1>2. HandlesT'
  BY DEF HandlesT
<1>3. RunnerInv'
  <2>1. \A u \in Tasks : Alive(u)' => u <= given'.task /\ proc' = "up"
    BY <1>1 DEF RunnerInv, Alive
  <2>2. \A u \in Tasks : runner'[u].pc = "finish" => runner'[u].verdict \in {"succeeded", "partial", "failed"}
    BY <1>1 DEF RunnerInv
  <2>3. ASSUME proc' = "up", NEW u \in DOMAIN tasks', Running(u)'
        PROVE  runner'[u].pc \notin {"away", "exit"} \/ u \in lost'
    <3>1. Running(u) /\ u \in DOMAIN tasks /\ u \in Tasks
      BY <2>3, GivenFields DEF Running, TasksT
    <3> QED
      BY <1>1, <2>3, <3>1 DEF RunnerInv
  <2>4. ASSUME NEW u \in Tasks,
               runner'[u].pc \notin {"away", "exit"} /\ (~stopped'[u] \/ runner'[u].pc = "writing")
        PROVE  Running(u)' \/ life' = "gone"
    <3>1. runner[u].pc \notin {"away", "exit"} /\ (~stopped[u] \/ runner[u].pc = "writing")
      BY <1>1, <2>4
    <3>2. Running(u) \/ life = "gone"
      BY <3>1 DEF RunnerInv
    <3> QED
      BY <3>2 DEF Running
  <2> QED
    BY <2>1, <2>2, <2>3, <2>4 DEF RunnerInv
<1>4. CancelInv'
  <2>1. ASSUME NEW v \in Services, NEW u \in cancels[v]
        PROVE  runner'[u].by = v /\ runner'[u].pc \notin {"away", "committed"}
    BY <1>1 DEF CancelInv, HandlesT
  <2>2. ASSUME canceller # 0
        PROVE  /\ canceller <= given.task /\ proc = "up"
               /\ stopped[canceller] \/ runner'[canceller].pc = "away"
    <3>1. canceller \in Tasks
      BY <2>2, Bounds DEF HandlesT, Tasks
    <3> QED
      BY <1>1, <2>2, <3>1 DEF CancelInv
  <2> QED
    BY <2>1, <2>2 DEF CancelInv
<1> QED
  BY <1>1, <1>2, <1>3, <1>4

-----------------------------------------------------------------------------
\* The runner

LEMMA RowsStay ==
  ASSUME Parts, UNCHANGED <<rows, proc>>, faults' \in 0..MaxFaults
  PROVE  /\ LifeT' /\ GivenT' /\ TasksT' /\ SourcesT' /\ OriginsT' /\ GoneT'
         /\ TaskInv' /\ PendingFacesActive' /\ OriginInv'
<1>1. UNCHANGED <<life, shown, tasks, sources, given, canonical, origins, typed>>
  BY DEF rows, entries
<1>2. GivenT' /\ TasksT' /\ GoneT'
  BY <1>1 DEF Parts, GivenT, TasksT, GoneT
<1>3. given.snap >= given.snap
  BY GivenFields DEF Parts
<1> QED
  BY <1>1, <1>2, <1>3, LifeFrame, ContentFrame

LEMMA RowShape ==
  ASSUME Parts, NEW t \in Tasks
  PROVE  runner[t] \in RunnerRow(given.source)
  BY DEF Parts, RunnerT

\* A source is done with.
LEMMA OnwardShape ==
  ASSUME Parts, NEW t \in Tasks, NEW ok \in BOOLEAN
  PROVE  /\ Onward(t, ok) \in RunnerRow(given.source)
         /\ Onward(t, ok).pc = "next" /\ Onward(t, ok).by = runner[t].by
<1>1. runner[t] \in RunnerRow(given.source)
  BY RowShape
<1>2. runner[t].todo \ {Min(runner[t].todo)} \in SUBSET (1..given.source)
  BY <1>1 DEF RunnerRow
<1>3. (runner[t].any \/ ok) \in BOOLEAN /\ (runner[t].all /\ ok) \in BOOLEAN
  OBVIOUS
<1> QED
  BY <1>1, <1>2, <1>3 DEF Onward, RunnerRow, Pcs

LEMMA RegisterStep ==
  ASSUME Parts, NEW t \in Tasks, Register(t)
  PROVE  Parts'
<1> USE DEF Parts
<1>1. /\ runner[t].pc = "committed" /\ Step(t, [runner[t] EXCEPT !.pc = "open"])
      /\ cancels' = [cancels EXCEPT ![runner[t].by] = @ \cup {t}]
      /\ UNCHANGED <<rows, stopped, canceller, proc, faults, lost>>
  BY DEF Register, Step
<1>2. UNCHANGED <<life, shown, tasks, sources, given, canonical, origins, typed, stopped, canceller, proc, faults, lost>>
  BY <1>1 DEF rows, entries
<1>3. /\ LifeT' /\ GivenT' /\ TasksT' /\ SourcesT' /\ OriginsT' /\ GoneT'
      /\ TaskInv' /\ PendingFacesActive' /\ OriginInv'
  BY <1>1, RowsStay DEF LifeT
<1>4. /\ [runner[t] EXCEPT !.pc = "open"] \in RunnerRow(given.source)
      /\ [runner[t] EXCEPT !.pc = "open"].pc = "open" /\ [runner[t] EXCEPT !.pc = "open"].by = runner[t].by
  <2>1. runner[t] \in RunnerRow(given.source)
    BY RowShape
  <2> QED
    BY <2>1 DEF RunnerRow, Pcs
<1>5. /\ runner'[t].pc = "open" /\ runner'[t].by = runner[t].by
      /\ \A u \in Tasks : u # t => runner'[u] = runner[u]
      /\ RunnerT'
  BY <1>1, <1>2, <1>4 DEF Step, RunnerT
<1>6. /\ cancels' \in [Services -> SUBSET Tasks]
      /\ \A v \in Services : cancels'[v] = IF v = runner[t].by THEN cancels[v] \cup {t} ELSE cancels[v]
  BY <1>1 DEF HandlesT
<1>7. HandlesT'
  BY <1>2, <1>6 DEF HandlesT
<1>8. RunnerInv'
  <2>1. \A u \in Tasks : Alive(u)' => u <= given'.task /\ proc' = "up"
    BY <1>1, <1>2, <1>5 DEF RunnerInv, Alive
  <2>2. \A u \in Tasks : runner'[u].pc = "finish" => runner'[u].verdict \in {"succeeded", "partial", "failed"}
    BY <1>5 DEF RunnerInv
  <2>3. ASSUME proc' = "up", NEW u \in DOMAIN tasks', Running(u)'
        PROVE  runner'[u].pc \notin {"away", "exit"} \/ u \in lost'
    <3>1. Running(u) /\ u \in DOMAIN tasks /\ u \in Tasks
      BY <1>2, <2>3, GivenFields DEF Running, TasksT
    <3> QED
      BY <1>2, <1>5, <2>3, <3>1 DEF RunnerInv
  <2>4. ASSUME NEW u \in Tasks,
               runner'[u].pc \notin {"away", "exit"} /\ (~stopped'[u] \/ runner'[u].pc = "writing")
        PROVE  Running(u)' \/ life' = "gone"
    <3>1. runner[u].pc \notin {"away", "exit"} /\ (~stopped[u] \/ runner[u].pc = "writing")
      BY <1>1, <1>2, <1>5, <2>4
    <3> QED
      BY <1>2, <3>1 DEF RunnerInv, Running
  <2> QED
    BY <2>1, <2>2, <2>3, <2>4 DEF RunnerInv
<1>9. CancelInv'
  <2>1. ASSUME NEW v \in Services, NEW u \in cancels'[v]
        PROVE  runner'[u].by = v /\ runner'[u].pc \notin {"away", "committed"}
    <3>1. CASE u = t /\ v = runner[t].by
      BY <1>5, <3>1
    <3>2. CASE u \in cancels[v]
      BY <1>1, <1>5, <3>2 DEF CancelInv, HandlesT
    <3> QED
      BY <1>6, <2>1, <3>1, <3>2
  <2>2. ASSUME canceller # 0
        PROVE  /\ canceller <= given.task /\ proc = "up"
               /\ stopped[canceller] \/ runner'[canceller].pc = "away"
    <3>1. canceller \in Tasks
      BY <2>2, Bounds DEF HandlesT, Tasks
    <3>2. canceller # t \/ stopped[t]
      BY <1>1, <2>2 DEF CancelInv
    <3> QED
      BY <1>5, <2>2, <3>1, <3>2 DEF CancelInv
  <2> QED
    BY <1>2, <2>1, <2>2 DEF CancelInv
<1> QED
  BY <1>3, <1>5, <1>7, <1>8, <1>9

\* The steps that touch the runner's own place only.
LEMMA RunnerGoesOn ==
  ASSUME Parts, NEW t \in Tasks,
         \/ OpenPool(t) \/ OpenFails(t) \/ Interrupted(t) \/ AllDone(t)
         \/ \E ok \in BOOLEAN : Fetch(t, ok)
         \/ BeginWrite(t) \/ NoWrite(t) \/ AbortWrite(t) \/ FinishFails(t)
  PROVE  Parts'
<1> USE DEF Parts
<1>1. /\ UNCHANGED <<rows, stopped, cancels, canceller, proc>> /\ faults' \in 0..MaxFaults
      /\ lost \subseteq lost' /\ lost' \subseteq Tasks
  <2>1. CASE FinishFails(t)
    <3>1. faults \in 0..MaxFaults /\ faults < MaxFaults /\ faults' = faults + 1
      BY <2>1 DEF FinishFails, Fault, LifeT
    <3>2. faults' \in 0..MaxFaults
      BY <3>1, Bounds
    <3> QED
      BY <2>1, <3>2 DEF FinishFails, HandlesT
  <2>2. CASE ~FinishFails(t)
    <3>1. UNCHANGED <<rows, stopped, cancels, canceller, proc, faults, lost>>
      BY <2>2 DEF OpenPool, OpenFails, Interrupted, AllDone, Fetch, BeginWrite, NoWrite, AbortWrite
    <3> QED
      BY <3>1 DEF LifeT, HandlesT
  <2> QED
    BY <2>1, <2>2
<1>2. UNCHANGED <<life, tasks, given>> /\ UNCHANGED sources
  BY <1>1 DEF rows
<1>3. /\ LifeT' /\ GivenT' /\ TasksT' /\ SourcesT' /\ OriginsT' /\ GoneT'
      /\ TaskInv' /\ PendingFacesActive' /\ OriginInv'
  BY <1>1, RowsStay
<1>4. \E row \in RunnerRow(given.source) :
        /\ Step(t, row) /\ runner[t].pc \notin {"away", "committed", "exit"}
        /\ row.pc \notin {"away", "committed"} /\ row.by = runner[t].by
        /\ row.pc = "finish" => row.verdict \in {"succeeded", "partial", "failed"}
        /\ row.pc = "exit" => ~Running(t) \/ t \in lost'
        /\ row.pc = "writing" => ~stopped[t] \/ runner[t].pc = "writing"
  <2>0. runner[t] \in RunnerRow(given.source)
    BY RowShape
  <2>1. CASE OpenPool(t)
    <3>1. CASE life = "present"
      <4> DEFINE row == [runner[t] EXCEPT !.pc = "next", !.todo = DOMAIN sources]
      <4>1. Step(t, row) /\ runner[t].pc = "open" /\ DOMAIN sources \subseteq 1..given.source
        BY <2>1, <3>1 DEF OpenPool, SourcesT
      <4>2. row \in RunnerRow(given.source) /\ row.pc = "next" /\ row.by = runner[t].by
        BY <2>0, <4>1 DEF RunnerRow, Pcs
      <4> QED
        BY <4>1, <4>2
    <3>2. CASE life # "present"
      <4> DEFINE row == [runner[t] EXCEPT !.pc = "exit"]
      <4>1. Step(t, row) /\ runner[t].pc = "open" /\ ~Running(t)
        BY <2>1, <3>2 DEF OpenPool, GoneT, Running
      <4>2. row \in RunnerRow(given.source) /\ row.pc = "exit" /\ row.by = runner[t].by
        BY <2>0 DEF RunnerRow, Pcs
      <4> QED
        BY <4>1, <4>2
    <3> QED
      BY <3>1, <3>2
  <2>2. CASE OpenFails(t) \/ Interrupted(t) \/ AllDone(t)
    <3>1. PICK verdict \in {"succeeded", "partial", "failed"} :
            Step(t, Finishing(t, verdict)) /\ runner[t].pc \in {"open", "next"}
      BY <2>2 DEF OpenFails, Interrupted, AllDone
    <3>2. /\ Finishing(t, verdict) \in RunnerRow(given.source) /\ Finishing(t, verdict).pc = "finish"
          /\ Finishing(t, verdict).by = runner[t].by /\ Finishing(t, verdict).verdict = verdict
      BY <2>0 DEF Finishing, RunnerRow, Pcs, Statuses
    <3> QED
      BY <3>1, <3>2
  <2>3. ASSUME NEW ok \in BOOLEAN, Fetch(t, ok)
        PROVE  \E row \in RunnerRow(given.source) :
                 /\ Step(t, row) /\ runner[t].pc = "next" /\ row.pc = "fetched" /\ row.by = runner[t].by
    <3> DEFINE row == [runner[t] EXCEPT !.pc = "fetched", !.ok = ok]
    <3>1. Step(t, row) /\ runner[t].pc = "next"
      BY <2>3 DEF Fetch
    <3>2. row \in RunnerRow(given.source) /\ row.pc = "fetched" /\ row.by = runner[t].by
      BY <2>0 DEF RunnerRow, Pcs
    <3> QED
      BY <3>1, <3>2
  <2>4. CASE BeginWrite(t)
    <3> DEFINE row == [runner[t] EXCEPT !.pc = "writing"]
    <3>1. Step(t, row) /\ runner[t].pc = "fetched" /\ ~stopped[t]
      BY <2>4 DEF BeginWrite
    <3>2. row \in RunnerRow(given.source) /\ row.pc = "writing" /\ row.by = runner[t].by
      BY <2>0 DEF RunnerRow, Pcs
    <3> QED
      BY <3>1, <3>2
  <2>5. CASE NoWrite(t) \/ AbortWrite(t)
    <3>1. Step(t, Onward(t, FALSE)) /\ runner[t].pc \in {"fetched", "writing"}
      BY <2>5 DEF NoWrite, AbortWrite
    <3> QED
      BY <3>1, OnwardShape
  <2>6. CASE FinishFails(t)
    <3> DEFINE row == [runner[t] EXCEPT !.pc = "exit"]
    <3>1. Step(t, row) /\ runner[t].pc = "finish" /\ (Running(t) => t \in lost')
      BY <2>6 DEF FinishFails
    <3>2. row \in RunnerRow(given.source) /\ row.pc = "exit" /\ row.by = runner[t].by
      BY <2>0 DEF RunnerRow, Pcs
    <3> QED
      BY <3>1, <3>2
  <2> QED
    BY <2>1, <2>2, <2>3, <2>4, <2>5, <2>6
<1>5. RunnerT' /\ HandlesT' /\ RunnerInv' /\ CancelInv'
  BY <1>1, <1>2, <1>4, RunnerMoves
<1> QED
  BY <1>3, <1>5

LEMMA ExitStep ==
  ASSUME Parts, NEW t \in Tasks, Exit(t)
  PROVE  Parts'
<1> USE DEF Parts
<1>1. /\ runner[t].pc = "exit" /\ Step(t, Away)
      /\ cancels' = [cancels EXCEPT ![runner[t].by] = @ \ {t}]
      /\ stopped' = [stopped EXCEPT ![t] = FALSE]
      /\ UNCHANGED <<rows, canceller, proc, faults, lost>>
  BY DEF Exit
<1>2. UNCHANGED <<life, shown, tasks, sources, given>>
  BY <1>1 DEF rows
<1>3. /\ LifeT' /\ GivenT' /\ TasksT' /\ SourcesT' /\ OriginsT' /\ GoneT'
      /\ TaskInv' /\ PendingFacesActive' /\ OriginInv'
  BY <1>1, RowsStay DEF LifeT
<1>4. Away \in RunnerRow(given.source) /\ Away.pc = "away"
  BY DEF Away, RunnerRow, Pcs
<1>5. /\ runner'[t].pc = "away"
      /\ \A u \in Tasks : u # t => runner'[u] = runner[u]
      /\ RunnerT'
  BY <1>1, <1>2, <1>4 DEF Step, RunnerT
<1>6. /\ cancels' \in [Services -> SUBSET Tasks]
      /\ \A v \in Services : cancels'[v] = IF v = runner[t].by THEN cancels[v] \ {t} ELSE cancels[v]
  BY <1>1 DEF HandlesT
<1>7. stopped' \in [Tasks -> BOOLEAN] /\ \A u \in Tasks : u # t => stopped'[u] = stopped[u]
  BY <1>1 DEF HandlesT
<1>8. HandlesT'
  BY <1>1, <1>6, <1>7 DEF HandlesT
<1>9. RunnerInv'
  <2>1. \A u \in Tasks : Alive(u)' => u <= given'.task /\ proc' = "up"
    BY <1>1, <1>2, <1>5 DEF RunnerInv, Alive
  <2>2. \A u \in Tasks : runner'[u].pc = "finish" => runner'[u].verdict \in {"succeeded", "partial", "failed"}
    BY <1>5 DEF RunnerInv
  <2>3. ASSUME proc' = "up", NEW u \in DOMAIN tasks', Running(u)'
        PROVE  runner'[u].pc \notin {"away", "exit"} \/ u \in lost'
    <3>1. Running(u) /\ u \in DOMAIN tasks /\ u \in Tasks
      BY <1>2, <2>3, GivenFields DEF Running, TasksT
    <3> QED
      BY <1>1, <1>5, <2>3, <3>1 DEF RunnerInv
  <2>4. ASSUME NEW u \in Tasks,
               runner'[u].pc \notin {"away", "exit"} /\ (~stopped'[u] \/ runner'[u].pc = "writing")
        PROVE  Running(u)' \/ life' = "gone"
    <3>1. runner[u].pc \notin {"away", "exit"} /\ (~stopped[u] \/ runner[u].pc = "writing")
      BY <1>5, <1>7, <2>4
    <3> QED
      BY <1>2, <3>1 DEF RunnerInv, Running
  <2> QED
    BY <2>1, <2>2, <2>3, <2>4 DEF RunnerInv
<1>10. CancelInv'
  <2>1. ASSUME NEW v \in Services, NEW u \in cancels'[v]
        PROVE  runner'[u].by = v /\ runner'[u].pc \notin {"away", "committed"}
    <3>1. u \in cancels[v] /\ (v = runner[t].by => u # t)
      BY <1>6, <2>1
    <3>2. u # t /\ u \in Tasks
      BY <3>1 DEF CancelInv, HandlesT
    <3> QED
      BY <1>5, <3>1, <3>2 DEF CancelInv
  <2>2. ASSUME canceller # 0
        PROVE  /\ canceller <= given.task /\ proc = "up"
               /\ stopped'[canceller] \/ runner'[canceller].pc = "away"
    <3>1. canceller \in Tasks
      BY <2>2, Bounds DEF HandlesT, Tasks
    <3>2. CASE canceller = t
      BY <1>5, <2>2, <3>2 DEF CancelInv
    <3>3. CASE canceller # t
      BY <1>5, <1>7, <2>2, <3>1, <3>3 DEF CancelInv
    <3> QED
      BY <3>2, <3>3
  <2> QED
    BY <1>1, <1>2, <2>1, <2>2 DEF CancelInv
<1> QED
  BY <1>3, <1>5, <1>8, <1>9, <1>10

-----------------------------------------------------------------------------
\* Cancelling

\* A context is cancelled, or a CancelSync call begins or is over: no task changes.
LEMMA HandleStep ==
  ASSUME Parts,
         \/ \E t \in Tasks : Timeout(t) \/ AskCancel(t)
         \/ MarkFails
  PROVE  Parts'
<1> USE DEF Parts
<1>1. /\ UNCHANGED <<rows, runner, cancels, proc, faults, lost>>
      /\ stopped' = stopped \/ \E t \in Tasks : stopped' = [stopped EXCEPT ![t] = TRUE]
  BY DEF Timeout, AskCancel, MarkFails
<1>2. stopped' \in [Tasks -> BOOLEAN] /\ \A u \in Tasks : stopped[u] => stopped'[u]
  BY <1>1 DEF HandlesT
<1>3. UNCHANGED <<life, tasks, given>>
  BY <1>1 DEF rows
<1>4. /\ LifeT' /\ GivenT' /\ TasksT' /\ SourcesT' /\ OriginsT' /\ GoneT'
      /\ TaskInv' /\ PendingFacesActive' /\ OriginInv'
  BY <1>1, RowsStay DEF LifeT
<1>5. \/ canceller' \in {0, canceller}
      \/ canceller' \in Tasks /\ canceller' <= given.task /\ proc = "up" /\ stopped'[canceller']
  <2>1. ASSUME NEW t \in Tasks, AskCancel(t)
        PROVE  canceller' \in Tasks /\ canceller' <= given.task /\ proc = "up" /\ stopped'[canceller']
    <3>1. /\ proc = "up" /\ "http" \in Services /\ t \in cancels["http"] /\ canceller' = t
          /\ stopped' = [stopped EXCEPT ![t] = TRUE]
      BY <2>1 DEF AskCancel
    <3>2. t <= given.task
      BY <3>1 DEF CancelInv, RunnerInv, Alive
    <3> QED
      BY <3>1, <3>2 DEF HandlesT
  <2> QED
    BY <2>1 DEF Timeout, MarkFails
<1>6. HandlesT'
  BY <1>1, <1>2, <1>5, Bounds DEF HandlesT, Tasks
<1>7. RunnerT'
  BY <1>1, <1>3 DEF RunnerT
<1>8. RunnerInv'
  <2>1. ASSUME NEW u \in Tasks,
               runner'[u].pc \notin {"away", "exit"} /\ (~stopped'[u] \/ runner'[u].pc = "writing")
        PROVE  Running(u)' \/ life' = "gone"
    <3>1. runner[u].pc \notin {"away", "exit"} /\ (~stopped[u] \/ runner[u].pc = "writing")
      BY <1>1, <1>2, <2>1
    <3> QED
      BY <1>3, <3>1 DEF RunnerInv, Running
  <2> QED
    BY <1>1, <1>3, <2>1 DEF RunnerInv, Alive, Running
<1>9. CancelInv'
  <2>1. ASSUME canceller' # 0
        PROVE  /\ canceller' <= given.task /\ proc = "up"
               /\ stopped'[canceller'] \/ runner[canceller'].pc = "away"
    <3>1. CASE canceller' = canceller
      <4>1. canceller \in Tasks
        BY <2>1, <3>1, Bounds DEF HandlesT, Tasks
      <4> QED
        BY <1>2, <2>1, <3>1, <4>1 DEF CancelInv
    <3> QED
      BY <1>5, <2>1, <3>1
  <2> QED
    BY <1>1, <1>3, <2>1 DEF CancelInv
<1> QED
  BY <1>4, <1>6, <1>7, <1>8, <1>9

\* A task ends in the database, if it has not ended before.
LEMMA Ending ==
  ASSUME Parts, NEW u \in Tasks, NEW status \in {"succeeded", "partial", "failed"}, proc = "up", End(u, status),
         UNCHANGED <<life, sources, origins, given, proc, faults>>
  PROVE  /\ LifeT' /\ TasksT' /\ GoneT' /\ TaskInv' /\ DOMAIN tasks' = DOMAIN tasks
         /\ \A t \in Tasks : Running(t)' <=> Running(t) /\ t # u
<1> USE DEF Parts
<1>1. CASE Running(u)
  <2>1. /\ u \in DOMAIN tasks /\ shown' = status
        /\ tasks' = Put(tasks, u, [status |-> status, restarted |-> FALSE])
    BY <1>1 DEF End, Running
  <2>2. /\ DOMAIN tasks' = DOMAIN tasks
        /\ tasks'[u] = [status |-> status, restarted |-> FALSE]
        /\ \A t \in DOMAIN tasks : t # u => tasks'[t] = tasks[t]
        /\ tasks' = [t \in DOMAIN tasks |-> tasks'[t]]
    BY <2>1 DEF Put
  <2>3. TasksT'
    <3>1. [status |-> status, restarted |-> FALSE] \in [status : Statuses, restarted : BOOLEAN]
      BY DEF Statuses
    <3>2. \A t \in DOMAIN tasks : tasks'[t] \in [status : Statuses, restarted : BOOLEAN]
      BY <2>2, <3>1 DEF TasksT
    <3>3. tasks' \in [DOMAIN tasks' -> [status : Statuses, restarted : BOOLEAN]]
      BY <2>2, <3>2
    <3> QED
      BY <2>2, <3>3 DEF TasksT
  <2>4. \A t \in Tasks : Running(t)' <=> Running(t) /\ t # u
    BY <2>2 DEF Running
  <2>5. \A t \in DOMAIN tasks' : ~Running(t)'
    BY <1>1, <2>1, <2>2, <2>4, GivenFields DEF TaskInv, TasksT
  <2>6. LifeT' /\ GoneT' /\ TaskInv'
    BY <2>1, <2>2, <2>5 DEF LifeT, GoneT, TaskInv, Statuses
  <2> QED
    BY <2>2, <2>3, <2>4, <2>6
<1>2. CASE ~Running(u)
  <2>1. UNCHANGED <<tasks, shown>>
    BY <1>2 DEF End
  <2>2. LifeT' /\ TasksT' /\ GoneT' /\ TaskInv'
    BY <2>1 DEF LifeT, TasksT, GoneT, TaskInv, Running
  <2> QED
    BY <1>2, <2>1, <2>2 DEF Running
<1> QED
  BY <1>1, <1>2

LEMMA MarkCancelledStep ==
  ASSUME Parts, MarkCancelled
  PROVE  Parts'
<1> USE DEF Parts
<1>1. /\ proc = "up" /\ ~Locked /\ canceller # 0 /\ End(canceller, "failed") /\ canceller' = 0
      /\ UNCHANGED <<life, sources, given, runner, stopped, cancels, proc, faults, lost>>
      /\ UNCHANGED <<canonical, origins, typed>>
  BY DEF MarkCancelled, Serving, entries
<1>2. canceller \in Tasks
  BY <1>1, Bounds DEF HandlesT, Tasks
<1>3. /\ LifeT' /\ TasksT' /\ GoneT' /\ TaskInv' /\ DOMAIN tasks' = DOMAIN tasks
      /\ \A t \in Tasks : Running(t)' <=> Running(t) /\ t # canceller
  BY <1>1, <1>2, Ending
<1>4. GivenT' /\ SourcesT' /\ OriginsT' /\ PendingFacesActive' /\ OriginInv'
  <2>1. GivenT' /\ given.snap >= given.snap
    BY <1>1, GivenFields DEF GivenT
  <2> QED
    BY <1>1, <2>1, ContentFrame
<1>5. RunnerT' /\ HandlesT' /\ CancelInv'
  BY <1>1, Bounds DEF RunnerT, HandlesT, CancelInv
<1>6. RunnerInv'
  <2>1. ASSUME proc' = "up", NEW u \in DOMAIN tasks', Running(u)'
        PROVE  runner'[u].pc \notin {"away", "exit"} \/ u \in lost'
    <3>1. Running(u) /\ u \in DOMAIN tasks
      BY <1>3, <2>1, GivenFields DEF TasksT
    <3> QED
      BY <1>1, <3>1 DEF RunnerInv
  <2>2. ASSUME NEW u \in Tasks,
               runner'[u].pc \notin {"away", "exit"} /\ (~stopped'[u] \/ runner'[u].pc = "writing")
        PROVE  Running(u)' \/ life' = "gone"
    <3>1. Running(u) \/ life = "gone"
      BY <1>1, <2>2 DEF RunnerInv
    <3>2. u # canceller
      BY <1>1, <2>2 DEF CancelInv, Locked
    <3> QED
      BY <1>1, <1>3, <3>1, <3>2
  <2> QED
    BY <1>1, <2>1, <2>2 DEF RunnerInv, Alive
<1> QED
  BY <1>3, <1>4, <1>5, <1>6

LEMMA FinishStep ==
  ASSUME Parts, NEW t \in Tasks, Finish(t)
  PROVE  Parts'
<1> USE DEF Parts
<1> PICK status : status = IF stopped[t] THEN "failed" ELSE runner[t].verdict
  OBVIOUS
<1>1. /\ runner[t].pc = "finish" /\ End(t, status) /\ Step(t, [runner[t] EXCEPT !.pc = "exit"])
      /\ UNCHANGED <<life, sources, given, stopped, cancels, canceller, proc, faults, lost>>
      /\ UNCHANGED <<canonical, origins, typed>>
  BY DEF Finish, entries
<1>2. status \in {"succeeded", "partial", "failed"} /\ proc = "up"
  BY <1>1 DEF RunnerInv, Alive
<1>3. /\ LifeT' /\ TasksT' /\ GoneT' /\ TaskInv' /\ DOMAIN tasks' = DOMAIN tasks
      /\ \A u \in Tasks : Running(u)' <=> Running(u) /\ u # t
  BY <1>1, <1>2, Ending
<1>4. GivenT' /\ SourcesT' /\ OriginsT' /\ PendingFacesActive' /\ OriginInv'
  <2>1. GivenT' /\ given.snap >= given.snap
    BY <1>1, GivenFields DEF GivenT
  <2> QED
    BY <1>1, <2>1, ContentFrame
<1>5. /\ runner'[t].pc = "exit" /\ runner'[t].by = runner[t].by
      /\ \A u \in Tasks : u # t => runner'[u] = runner[u]
      /\ RunnerT'
  <2>1. runner[t] \in RunnerRow(given.source)
    BY RowShape
  <2>2. [runner[t] EXCEPT !.pc = "exit"] \in RunnerRow(given.source)
    BY <2>1 DEF RunnerRow, Pcs
  <2>3. [runner[t] EXCEPT !.pc = "exit"].pc = "exit" /\ [runner[t] EXCEPT !.pc = "exit"].by = runner[t].by
    BY <2>1 DEF RunnerRow
  <2> QED
    BY <1>1, <2>2, <2>3 DEF Step, RunnerT
<1>6. HandlesT'
  BY <1>1 DEF HandlesT
<1>7. RunnerInv'
  <2>1. ASSUME proc' = "up", NEW u \in DOMAIN tasks', Running(u)'
        PROVE  runner'[u].pc \notin {"away", "exit"} \/ u \in lost'
    <3>1. Running(u) /\ u \in DOMAIN tasks /\ u \in Tasks /\ u # t
      BY <1>3, <2>1, GivenFields DEF TasksT
    <3> QED
      BY <1>1, <1>2, <1>5, <3>1 DEF RunnerInv
  <2>2. ASSUME NEW u \in Tasks,
               runner'[u].pc \notin {"away", "exit"} /\ (~stopped'[u] \/ runner'[u].pc = "writing")
        PROVE  Running(u)' \/ life' = "gone"
    <3>1. u # t /\ runner'[u] = runner[u]
      BY <1>5, <2>2
    <3>2. Running(u) \/ life = "gone"
      BY <1>1, <2>2, <3>1 DEF RunnerInv
    <3> QED
      BY <1>1, <1>3, <3>1, <3>2
  <2>3. \A u \in Tasks : Alive(u)' => u <= given'.task /\ proc' = "up"
    BY <1>1, <1>5 DEF RunnerInv, Alive
  <2>4. \A u \in Tasks : runner'[u].pc = "finish" => runner'[u].verdict \in {"succeeded", "partial", "failed"}
    BY <1>5 DEF RunnerInv
  <2> QED
    BY <2>1, <2>2, <2>3, <2>4 DEF RunnerInv
<1>8. CancelInv'
  <2>1. ASSUME NEW v \in Services, NEW u \in cancels[v]
        PROVE  runner'[u].by = v /\ runner'[u].pc \notin {"away", "committed"}
    BY <1>5 DEF CancelInv, HandlesT
  <2>2. ASSUME canceller # 0
        PROVE  /\ canceller <= given.task /\ proc = "up"
               /\ stopped[canceller] \/ runner'[canceller].pc = "away"
    <3>1. canceller \in Tasks
      BY <2>2, Bounds DEF HandlesT, Tasks
    <3> QED
      BY <1>1, <1>5, <2>2, <3>1 DEF CancelInv
  <2> QED
    BY <1>1, <2>1, <2>2 DEF CancelInv
<1> QED
  BY <1>3, <1>4, <1>5, <1>6, <1>7, <1>8

-----------------------------------------------------------------------------
\* Tasks come and go.

LEMMA SubmitStep ==
  ASSUME Parts, NEW v \in Services, Submit(v)
  PROVE  Parts'
<1> USE DEF Parts
<1> PICK t : t = given.task + 1
  OBVIOUS
<1>1. /\ proc = "up" /\ life = "present" /\ given.task < MaxTasks /\ shown' = "running"
      /\ \A u \in DOMAIN tasks : tasks[u].status # "running"
      /\ tasks' = Put(tasks, t, [status |-> "running", restarted |-> FALSE])
      /\ given' = [given EXCEPT !.task = t]
      /\ runner' = [runner EXCEPT ![t] = [Away EXCEPT !.pc = "committed", !.by = v]]
      /\ UNCHANGED <<life, sources, stopped, cancels, canceller, proc, faults, lost>>
      /\ UNCHANGED <<canonical, origins, typed>>
  BY DEF Submit, Serving, entries
<1>2. /\ t \in Tasks /\ t \in Nat /\ t \in 1..MaxTasks /\ given.task < t
      /\ GivenT' /\ given'.task = t /\ given'.source = given.source /\ given'.snap = given.snap
  <2>1. /\ given.task \in Nat /\ given \in [task : 0..MaxTasks, source : 0..MaxSources, snap : 0..MaxSnaps]
    BY GivenFields DEF GivenT
  <2>2. t \in 1..MaxTasks /\ given.task < t
    BY <1>1, <2>1, Bounds
  <2> QED
    BY <1>1, <2>1, <2>2 DEF GivenT, Tasks
<1>3. /\ t \notin DOMAIN tasks /\ \A u \in DOMAIN tasks : ~Running(u)
      /\ ~Alive(t) /\ canceller # t /\ \A u \in Services : t \notin cancels[u]
  <2>1. \A u \in 1..given.task : u # t
    BY <1>2, GivenFields
  <2>2. ~Alive(t)
    BY <1>2, GivenFields DEF RunnerInv
  <2>3. canceller # t
    BY <1>2, <2>1, GivenFields, Bounds DEF CancelInv, HandlesT
  <2> QED
    BY <1>1, <1>2, <2>1, <2>2, <2>3 DEF TasksT, Running, CancelInv, Alive
<1>4. /\ DOMAIN tasks' = DOMAIN tasks \cup {t}
      /\ tasks'[t] = [status |-> "running", restarted |-> FALSE]
      /\ \A u \in DOMAIN tasks : tasks'[u] = tasks[u]
      /\ tasks' = [u \in DOMAIN tasks' |-> tasks'[u]]
  BY <1>1, <1>3 DEF Put
<1>5. TasksT'
  <2>1. DOMAIN tasks' \subseteq 1..given'.task
    BY <1>2, <1>4, GivenFields DEF TasksT
  <2>2. [status |-> "running", restarted |-> FALSE] \in [status : Statuses, restarted : BOOLEAN]
    BY DEF Statuses
  <2>3. \A u \in DOMAIN tasks' : tasks'[u] \in [status : Statuses, restarted : BOOLEAN]
    BY <1>4, <2>2 DEF TasksT
  <2> QED
    BY <1>4, <2>1, <2>3 DEF TasksT
<1>6. /\ Running(t)' /\ \A u \in DOMAIN tasks' : Running(u)' => u = t
  BY <1>3, <1>4 DEF Running
<1>7. LifeT' /\ GoneT' /\ TaskInv'
  BY <1>1, <1>4, <1>6 DEF LifeT, GoneT, TaskInv, Statuses
<1>8. SourcesT' /\ OriginsT' /\ PendingFacesActive' /\ OriginInv'
  <2>1. given.snap >= given.snap
    BY GivenFields
  <2> QED
    BY <1>1, <1>2, <2>1, ContentFrame
<1>9. /\ runner'[t].pc = "committed"
      /\ \A u \in Tasks : u # t => runner'[u] = runner[u]
      /\ RunnerT'
  <2> DEFINE row == [Away EXCEPT !.pc = "committed", !.by = v]
  <2>1. row \in RunnerRow(given.source) /\ row.pc = "committed"
    BY DEF Away, RunnerRow, Pcs
  <2> HIDE DEF row
  <2>2. runner' = [runner EXCEPT ![t] = row]
    BY <1>1 DEF row
  <2> QED
    BY <1>2, <2>1, <2>2 DEF RunnerT
<1>10. HandlesT'
  BY <1>1 DEF HandlesT
<1>11. RunnerInv'
  <2>1. ASSUME NEW u \in Tasks, Alive(u)' PROVE u <= given'.task /\ proc' = "up"
    <3>1. CASE u = t
      BY <1>1, <1>2, <3>1
    <3>2. CASE u # t
      <4>1. u <= given.task /\ u \in Nat
        BY <1>9, <2>1, <3>2, Bounds DEF RunnerInv, Alive, Tasks
      <4> QED
        BY <1>1, <1>2, <4>1, GivenFields
    <3> QED
      BY <3>1, <3>2
  <2>2. \A u \in Tasks : runner'[u].pc = "finish" => runner'[u].verdict \in {"succeeded", "partial", "failed"}
    BY <1>9 DEF RunnerInv
  <2>3. \A u \in DOMAIN tasks' : Running(u)' => runner'[u].pc \notin {"away", "exit"} \/ u \in lost'
    BY <1>6, <1>9
  <2>4. ASSUME NEW u \in Tasks,
               runner'[u].pc \notin {"away", "exit"} /\ (~stopped'[u] \/ runner'[u].pc = "writing")
        PROVE  Running(u)' \/ life' = "gone"
    <3>1. CASE u = t
      BY <1>6, <3>1
    <3>2. CASE u # t
      <4>1. Running(u) \/ life = "gone"
        BY <1>1, <1>9, <2>4, <3>2 DEF RunnerInv
      <4> QED
        BY <1>1, <1>3, <4>1 DEF Running
    <3> QED
      BY <3>1, <3>2
  <2> QED
    BY <2>1, <2>2, <2>3, <2>4 DEF RunnerInv
<1>12. CancelInv'
  <2>1. ASSUME NEW w \in Services, NEW u \in cancels[w]
        PROVE  runner'[u].by = w /\ runner'[u].pc \notin {"away", "committed"}
    BY <1>3, <1>9 DEF CancelInv, HandlesT
  <2>2. ASSUME canceller # 0
        PROVE  /\ canceller <= given'.task /\ proc = "up"
               /\ stopped[canceller] \/ runner'[canceller].pc = "away"
    <3>1. canceller \in Tasks /\ canceller \in Nat
      BY <2>2, Bounds DEF HandlesT, Tasks
    <3>2. canceller <= given.task
      BY <2>2 DEF CancelInv
    <3>3. canceller <= given'.task
      BY <1>2, <3>1, <3>2, GivenFields
    <3> QED
      BY <1>1, <1>3, <1>9, <2>2, <3>1, <3>3 DEF CancelInv
  <2> QED
    BY <1>1, <2>1, <2>2 DEF CancelInv
<1> QED
  BY <1>2, <1>5, <1>7, <1>8, <1>9, <1>10, <1>11, <1>12

\* The history is cleared or trimmed: what runs stays.
LEMMA TrimStep ==
  ASSUME Parts, NEW S, \A t \in DOMAIN tasks : Running(t) => t \in S,
         tasks' = Keep(tasks, S), proc = "up",
         UNCHANGED <<life, shown, sources, given, memory, proc, faults, lost>>
  PROVE  LifeT' /\ GivenT' /\ TasksT' /\ TaskInv' /\ RunnerT' /\ HandlesT' /\ RunnerInv' /\ CancelInv'
<1> USE DEF Parts
<1>1. /\ DOMAIN tasks' = DOMAIN tasks \cap S /\ \A t \in DOMAIN tasks' : tasks'[t] = tasks[t]
      /\ tasks' = [t \in DOMAIN tasks' |-> tasks'[t]]
  BY DEF Keep
<1>2. \A t : Running(t)' <=> Running(t)
  BY <1>1 DEF Running
<1>3. LifeT' /\ GivenT'
  BY DEF LifeT, GivenT
<1>4. TasksT'
  BY <1>1 DEF TasksT
<1>5. TaskInv'
  <2>1. \A t \in DOMAIN tasks : Running(t) => t \in DOMAIN tasks'
    BY <1>1
  <2> QED
    BY <1>1, <1>2, <2>1 DEF TaskInv
<1>6. given.task = given.task /\ given.source >= given.source
  BY GivenFields
<1>7. RunnerT' /\ HandlesT' /\ RunnerInv' /\ CancelInv'
  BY <1>1, <1>2, <1>3, <1>6, MemoryFrame
<1> QED
  BY <1>3, <1>4, <1>5, <1>7

LEMMA ClearFinishedTasksStep ==
  ASSUME Parts, ClearFinishedTasks
  PROVE  Parts'
<1> USE DEF Parts
<1>1. /\ proc = "up" /\ life = "present" /\ tasks' = Keep(tasks, DOMAIN tasks \ Ended)
      /\ UNCHANGED <<life, shown, sources, given, memory, proc, faults, lost>>
      /\ UNCHANGED <<canonical, origins, typed>>
  BY DEF ClearFinishedTasks, Serving, entries
<1>2. \A t \in DOMAIN tasks : Running(t) => t \in DOMAIN tasks \ Ended
  BY DEF Running, Ended
<1>3. LifeT' /\ GivenT' /\ TasksT' /\ TaskInv' /\ RunnerT' /\ HandlesT' /\ RunnerInv' /\ CancelInv'
  BY <1>1, <1>2, TrimStep
<1>4. given.snap >= given.snap
  BY GivenFields
<1>5. SourcesT' /\ OriginsT' /\ PendingFacesActive' /\ OriginInv'
  BY <1>1, <1>3, <1>4, ContentFrame
<1>6. GoneT'
  BY <1>1 DEF GoneT
<1> QED
  BY <1>3, <1>5, <1>6

\* Collecting what is left without an origin takes nothing that has one.
LEMMA RetraceAll == OriginsT => Traced(origins) \subseteq canonical /\ origins \subseteq [rule : Traced(origins), snap : 0..given.snap]
<1> SUFFICES ASSUME OriginsT, NEW o \in origins
             PROVE  o \in [rule : Traced(origins), snap : 0..given.snap]
  BY DEF Traced
<1>1. o \in [rule : canonical, snap : 0..given.snap] /\ o.rule \in Traced(origins)
  BY DEF OriginsT, Traced
<1> QED
  BY <1>1

LEMMA CleanupStep ==
  ASSUME Parts, NEW upTo \in Tasks, CleanupOldTasks(upTo)
  PROVE  Parts'
<1> USE DEF Parts
<1> DEFINE S == {t \in DOMAIN tasks : t > upTo \/ Running(t)}
<1>1. /\ proc = "up" /\ tasks' = Keep(tasks, S)
      /\ UNCHANGED <<life, shown, sources, given, memory, proc, faults, lost, typed>>
      /\ origins' = origins /\ canonical' = Traced(origins)
  BY DEF CleanupOldTasks, Serving, Retrace
<1>2. \A t \in DOMAIN tasks : Running(t) => t \in S
  OBVIOUS
<1>3. LifeT' /\ GivenT' /\ TasksT' /\ TaskInv' /\ RunnerT' /\ HandlesT' /\ RunnerInv' /\ CancelInv'
  BY <1>1, <1>2, TrimStep
<1>4. OriginsT'
  BY <1>1, RetraceAll DEF OriginsT
<1>5. SourcesT'
  BY <1>1 DEF SourcesT, Snaps
<1>6. PendingFacesActive' /\ OriginInv'
  BY <1>1 DEF PendingFacesActive, OriginInv, Stems
<1>7. GoneT'
  BY <1>1 DEF GoneT, Keep
<1> QED
  BY <1>3, <1>4, <1>5, <1>6, <1>7

-----------------------------------------------------------------------------
\* The process

LEMMA CrashStep ==
  ASSUME Parts, Crash
  PROVE  Parts'
<1> USE DEF Parts
<1>1. /\ proc' = "down" /\ faults < MaxFaults /\ faults' = faults + 1
      /\ runner' = [t \in Tasks |-> Away] /\ stopped' = [t \in Tasks |-> FALSE]
      /\ cancels' = [v \in Services |-> {}] /\ canceller' = 0
      /\ UNCHANGED <<life, shown, tasks, sources, given, canonical, origins, typed, lost>>
  BY DEF Crash, Fault, rows, entries
<1>2. GivenT' /\ TasksT' /\ GoneT'
  BY <1>1 DEF GivenT, TasksT, GoneT
<1>3. LifeT'
  <2>1. faults' \in 0..MaxFaults
    <3>1. faults \in 0..MaxFaults
      BY DEF LifeT
    <3> QED
      BY <1>1, <3>1, Bounds
  <2> QED
    BY <1>1, <2>1 DEF LifeT
<1>4. SourcesT' /\ OriginsT' /\ PendingFacesActive' /\ OriginInv'
  <2>1. given.snap >= given.snap
    BY GivenFields
  <2> QED
    BY <1>1, <1>2, <2>1, ContentFrame
<1>5. TaskInv'
  BY <1>1 DEF TaskInv, Running
<1>6. RunnerT' /\ HandlesT'
  <2>1. Away \in RunnerRow(given.source)
    BY DEF Away, RunnerRow, Pcs
  <2>2. RunnerT'
    BY <1>1, <2>1 DEF RunnerT
  <2>3. 0 \in 0..MaxTasks
    BY Bounds
  <2>4. HandlesT'
    BY <1>1, <2>3 DEF HandlesT
  <2> QED
    BY <2>2, <2>4
<1>7. RunnerInv' /\ CancelInv'
  <2>1. \A t \in Tasks : runner'[t].pc = "away"
    BY <1>1 DEF Away
  <2> QED
    BY <1>1, <2>1 DEF RunnerInv, CancelInv, Alive
<1> QED
  BY <1>2, <1>3, <1>4, <1>5, <1>6, <1>7

LEMMA BootTasksStep ==
  ASSUME Parts, BootTasks
  PROVE  Parts'
<1> USE DEF Parts
<1>1. /\ proc = "down" /\ proc' = "booting"
      /\ tasks' = [t \in DOMAIN tasks |->
                     IF Running(t) THEN [status |-> "failed", restarted |-> TRUE] ELSE tasks[t]]
      /\ UNCHANGED <<life, shown, sources, given, faults, lost, runner, stopped, cancels, canceller>>
      /\ UNCHANGED <<canonical, origins, typed>>
  BY DEF BootTasks, entries, memory
<1>2. \A t \in DOMAIN tasks' : ~Running(t)' /\ (Running(t) \/ tasks[t].restarted => tasks'[t].restarted)
  BY <1>1 DEF Running
<1>3. TasksT'
  <2>1. [status |-> "failed", restarted |-> TRUE] \in [status : Statuses, restarted : BOOLEAN]
    BY DEF Statuses
  <2>2. \A t \in DOMAIN tasks : tasks'[t] \in [status : Statuses, restarted : BOOLEAN]
    BY <1>1, <2>1 DEF TasksT
  <2> QED
    BY <1>1, <2>2 DEF TasksT
<1>4. TaskInv'
  BY <1>1, <1>2 DEF TaskInv
<1>5. LifeT' /\ GivenT' /\ GoneT' /\ RunnerT' /\ HandlesT'
  BY <1>1 DEF LifeT, GivenT, GoneT, RunnerT, HandlesT
<1>6. SourcesT' /\ OriginsT' /\ PendingFacesActive' /\ OriginInv'
  <2>1. given.snap >= given.snap
    BY GivenFields
  <2> QED
    BY <1>1, <1>5, <2>1, ContentFrame
<1>7. RunnerInv' /\ CancelInv'
  <2>1. (\A t \in Tasks : ~Alive(t)) /\ canceller = 0
    BY <1>1 DEF RunnerInv, CancelInv
  <2> QED
    BY <1>1, <2>1 DEF RunnerInv, CancelInv, Alive
<1> QED
  BY <1>3, <1>4, <1>5, <1>6, <1>7

LEMMA BootPoolsStep ==
  ASSUME Parts, BootPools
  PROVE  Parts'
<1> USE DEF Parts
<1>1. /\ proc = "booting" /\ proc' = "up"
      /\ shown' = IF \E t \in DOMAIN tasks : tasks[t].restarted THEN "failed" ELSE shown
      /\ UNCHANGED <<life, tasks, sources, given, faults, lost, runner, stopped, cancels, canceller>>
      /\ UNCHANGED <<canonical, origins, typed>>
  BY DEF BootPools, entries, memory
<1>2. \A t \in DOMAIN tasks : ~Running(t) /\ ~Running(t)'
  BY <1>1 DEF TaskInv, Running
<1>3. shown' # "running"
  BY <1>1, <1>2 DEF TaskInv
<1>4. TaskInv'
  BY <1>1, <1>2, <1>3 DEF TaskInv
<1>5. LifeT' /\ GoneT'
  BY <1>1 DEF LifeT, GoneT, Statuses
<1>6. GivenT' /\ TasksT' /\ RunnerT' /\ HandlesT'
  BY <1>1 DEF GivenT, TasksT, RunnerT, HandlesT
<1>7. SourcesT' /\ OriginsT' /\ PendingFacesActive' /\ OriginInv'
  <2>1. given.snap >= given.snap
    BY GivenFields
  <2> QED
    BY <1>1, <1>6, <2>1, ContentFrame
<1>8. RunnerInv' /\ CancelInv'
  <2>1. (\A t \in Tasks : ~Alive(t)) /\ canceller = 0
    BY <1>1 DEF RunnerInv, CancelInv
  <2> QED
    BY <1>1, <1>2, <2>1 DEF RunnerInv, CancelInv, Alive
<1> QED
  BY <1>4, <1>5, <1>6, <1>7, <1>8

-----------------------------------------------------------------------------
\* The pool and its sources

\* A handler that leaves tasks and memory alone.
LEMMA HandlerFrame ==
  ASSUME Parts, UNCHANGED <<shown, tasks, memory, proc, faults, lost>>, proc = "up",
         life' \in {"absent", "present", "gone"},
         life' = life \/ (life = "absent" /\ life' = "present"),
         GivenT', given'.task = given.task, given'.source >= given.source
  PROVE  LifeT' /\ TasksT' /\ RunnerT' /\ HandlesT' /\ TaskInv' /\ RunnerInv' /\ CancelInv'
<1>1. LifeT' /\ TasksT' /\ TaskInv'
  BY DEF Parts, LifeT, TasksT, TaskInv, Running
<1>2. \A t : Running(t)' <=> Running(t)
  BY DEF Running
<1>3. RunnerT' /\ HandlesT' /\ RunnerInv' /\ CancelInv'
  BY <1>2, MemoryFrame
<1> QED
  BY <1>1, <1>3

\* The new rows of a source list have not been synchronised.
LEMMA FreshSources ==
  ASSUME Parts, NEW k \in Nat, given.source + k <= MaxSources, sources' = Fresh(k),
         given' = [given EXCEPT !.source = @ + k],
         origins' \subseteq origins, \A o \in origins : o.snap = 0 => o \in origins',
         typed' = typed
  PROVE  /\ GivenT' /\ given'.task = given.task /\ given'.source >= given.source
         /\ given'.snap = given.snap
         /\ SourcesT' /\ PendingFacesActive' /\ OriginInv'
<1> USE DEF Parts
<1>1. /\ given.source \in Nat /\ given.task \in 0..MaxTasks /\ given.snap \in 0..MaxSnaps /\ given.snap \in Nat
      /\ given \in [task : 0..MaxTasks, source : 0..MaxSources, snap : 0..MaxSnaps]
  BY GivenFields DEF GivenT
<1>2. /\ given'.source = given.source + k /\ given'.task = given.task /\ given'.snap = given.snap
      /\ given' \in [task : 0..MaxTasks, source : 0..MaxSources, snap : 0..MaxSnaps]
  <2>1. given.source + k \in 0..MaxSources
    BY <1>1, Bounds
  <2> QED
    BY <1>1, <2>1
<1>3. /\ DOMAIN sources' \subseteq 1..given'.source
      /\ sources' = [s \in DOMAIN sources' |-> [active |-> NoSnap, pending |-> NoSnap]]
      /\ \A s \in DOMAIN sources' : sources'[s].active = NoSnap /\ sources'[s].pending = NoSnap
  BY <1>1, <1>2 DEF Fresh, NewSources
<1>4. NoSnap \in Snaps' /\ NoSnap.id = 0
  BY <1>1, <1>2 DEF NoSnap, Snaps
<1>5. SourcesT'
  BY <1>3, <1>4 DEF SourcesT
<1>6. PendingFacesActive'
  BY <1>3 DEF PendingFacesActive
<1>7. OriginInv'
  <2>1. \A q \in Rules : q \in typed' <=> [rule |-> q, snap |-> 0] \in origins'
    BY DEF OriginInv
  <2>2. (\A s \in DOMAIN sources : Stems(sources[s].active) /\ Stems(sources[s].pending))'
    BY <1>3, <1>4 DEF Stems
  <2>3. \A s, u \in DOMAIN sources' : s # u =>
          \A x \in {sources'[s].active.id, sources'[s].pending.id} :
            x # 0 => x \notin {sources'[u].active.id, sources'[u].pending.id}
    BY <1>3, <1>4
  <2>4. typed' \subseteq Rules
    BY DEF OriginInv
  <2> QED
    BY <2>1, <2>2, <2>3, <2>4 DEF OriginInv
<1> QED
  BY <1>1, <1>2, <1>5, <1>6, <1>7 DEF GivenT

LEMMA CreateStep ==
  ASSUME Parts, NEW k \in 0..MaxUrls, Create(k)
  PROVE  Parts'
<1> USE DEF Parts
<1>1. /\ proc = "up" /\ life = "absent" /\ given.source + k <= MaxSources /\ life' = "present"
      /\ sources' = Fresh(k) /\ given' = [given EXCEPT !.source = @ + k]
      /\ UNCHANGED <<canonical, origins, typed>> /\ UNCHANGED <<shown, tasks, memory, proc, faults, lost>>
  BY DEF Create, Serving, entries
<1>2. k \in Nat
  BY Bounds
<1>3. /\ GivenT' /\ given'.task = given.task /\ given'.source >= given.source /\ given'.snap = given.snap
      /\ SourcesT' /\ PendingFacesActive' /\ OriginInv'
  BY <1>1, <1>2, FreshSources
<1>4. LifeT' /\ TasksT' /\ RunnerT' /\ HandlesT' /\ TaskInv' /\ RunnerInv' /\ CancelInv'
  BY <1>1, <1>3, HandlerFrame
<1>5. OriginsT' /\ GoneT'
  BY <1>1, <1>3 DEF OriginsT, GoneT
<1> QED
  BY <1>3, <1>4, <1>5

\* What a write that takes origins away leaves of the rules is what still has one.
LEMMA Retraced ==
  ASSUME Parts, NEW os \in SUBSET origins, Retrace(os), given'.snap = given.snap
  PROVE  OriginsT'
<1>1. origins' = os /\ canonical' = Traced(os)
  BY DEF Retrace
<1>2. \A o \in os : o \in [rule : Traced(os), snap : 0..given.snap]
  <2> SUFFICES ASSUME NEW o \in os PROVE o \in [rule : Traced(os), snap : 0..given.snap]
    OBVIOUS
  <2>1. o \in [rule : canonical, snap : 0..given.snap] /\ o.rule \in Traced(os)
    BY DEF Parts, OriginsT, Traced
  <2> QED
    BY <2>1
<1>3. Traced(os) \subseteq Rules
  BY DEF Parts, OriginsT, Traced
<1> QED
  BY <1>1, <1>2, <1>3 DEF OriginsT

LEMMA UpdateStep ==
  ASSUME Parts, NEW k \in 0..MaxUrls, Update(k)
  PROVE  Parts'
<1> USE DEF Parts
<1>1. /\ proc = "up" /\ life = "present" /\ given.source + k <= MaxSources
      /\ sources' = Fresh(k) /\ given' = [given EXCEPT !.source = @ + k]
      /\ Retrace(Manual) /\ UNCHANGED <<life, shown, tasks, memory, proc, faults, lost, typed>>
  BY DEF Update, Serving
<1>2. k \in Nat
  BY Bounds
<1>3. Manual \subseteq origins /\ origins' = Manual /\ \A o \in origins : o.snap = 0 => o \in origins'
  BY <1>1 DEF Manual, Retrace
<1>4. /\ GivenT' /\ given'.task = given.task /\ given'.source >= given.source /\ given'.snap = given.snap
      /\ SourcesT' /\ PendingFacesActive' /\ OriginInv'
  BY <1>1, <1>2, <1>3, FreshSources
<1>5. LifeT' /\ TasksT' /\ RunnerT' /\ HandlesT' /\ TaskInv' /\ RunnerInv' /\ CancelInv'
  BY <1>1, <1>4, HandlerFrame DEF LifeT
<1>6. OriginsT'
  BY <1>1, <1>3, <1>4, Retraced
<1>7. GoneT'
  BY <1>1 DEF GoneT
<1> QED
  BY <1>4, <1>5, <1>6, <1>7

LEMMA DeleteStep ==
  ASSUME Parts, Delete
  PROVE  Parts'
<1> USE DEF Parts
<1>1. /\ proc = "up" /\ life' = "gone" /\ shown' = "" /\ life = "present"
      /\ tasks' = Keep(tasks, {}) /\ sources' = Keep(sources, {})
      /\ canonical' = {} /\ origins' = {} /\ typed' = {}
      /\ UNCHANGED <<given, memory, proc, faults, lost>>
  BY DEF Delete, Serving
<1>2. /\ DOMAIN tasks' = {} /\ DOMAIN sources' = {}
      /\ tasks' = [t \in DOMAIN tasks' |-> tasks'[t]] /\ sources' = [s \in DOMAIN sources' |-> sources'[s]]
  BY <1>1 DEF Keep
<1>3. \A t \in Tasks : ~Running(t)'
  BY <1>2 DEF Running
<1>4. GivenT' /\ given.task = given.task /\ given.source >= given.source
  <2>1. GivenT'
    BY <1>1 DEF GivenT
  <2> QED
    BY <2>1, GivenFields
<1>5. RunnerT' /\ HandlesT' /\ RunnerInv' /\ CancelInv'
  BY <1>1, <1>2, <1>3, <1>4, MemoryFrame
<1>6. LifeT' /\ GoneT' /\ TaskInv'
  BY <1>1, <1>2 DEF LifeT, GoneT, TaskInv
<1>7. TasksT' /\ SourcesT'
  BY <1>2 DEF TasksT, SourcesT
<1>8. OriginsT' /\ PendingFacesActive' /\ OriginInv'
  BY <1>1, <1>2 DEF OriginsT, PendingFacesActive, OriginInv
<1> QED
  BY <1>4, <1>5, <1>6, <1>7, <1>8

-----------------------------------------------------------------------------
\* Candidates and entries

\* A snapshot keeps its rules when the origins that are its own stay.
LEMMA StemsKept ==
  ASSUME NEW snap, Stems(snap),
         \A q \in Rules : [rule |-> q, snap |-> snap.id] \in origins' <=> [rule |-> q, snap |-> snap.id] \in origins
  PROVE  Stems(snap)'
  BY DEF Stems

LEMMA ActivatePendingStep ==
  ASSUME Parts, NEW s, NEW sn, ActivatePending(s, sn)
  PROVE  Parts'
<1> USE DEF Parts
<1>1. /\ proc = "up" /\ s \in DOMAIN sources /\ sn # 0 /\ sources[s].pending.id = sn
      /\ sources' = [sources EXCEPT ![s] = [active |-> @.pending, pending |-> NoSnap]]
      /\ UNCHANGED <<life, given>> /\ UNCHANGED <<shown, tasks, memory, proc, faults, lost>>
      /\ UNCHANGED <<canonical, origins, typed>>
  BY DEF ActivatePending, Serving, entries
<1>2. GivenT' /\ given.task = given.task /\ given.source >= given.source
  <2>1. GivenT'
    BY <1>1 DEF GivenT
  <2> QED
    BY <2>1, GivenFields
<1>3. LifeT' /\ TasksT' /\ RunnerT' /\ HandlesT' /\ TaskInv' /\ RunnerInv' /\ CancelInv'
  BY <1>1, <1>2, HandlerFrame DEF LifeT
<1>4. /\ DOMAIN sources' = DOMAIN sources
      /\ sources'[s].active = sources[s].pending /\ sources'[s].pending = NoSnap
      /\ sources'[s] = [active |-> sources[s].pending, pending |-> NoSnap]
      /\ \A u \in DOMAIN sources : u # s => sources'[u] = sources[u]
  BY <1>1 DEF SourcesT
<1>5. SourcesT'
  <2>1. NoSnap \in Snaps /\ sources[s].pending \in Snaps /\ Snaps' = Snaps
    BY <1>1, SnapFields, GivenFields DEF NoSnap, Snaps
  <2> QED
    BY <1>1, <2>1 DEF SourcesT
<1>6. OriginsT' /\ GoneT'
  BY <1>1, <1>4 DEF OriginsT, GoneT
<1>7. PendingFacesActive'
  BY <1>4 DEF PendingFacesActive
<1>8. OriginInv'
  <2>1. Stems(NoSnap)
    BY DEF Stems, NoSnap
  <2>2. \A u \in DOMAIN sources' : Stems(sources'[u].active) /\ Stems(sources'[u].pending)
    BY <1>4, <2>1 DEF OriginInv
  <2>3. (\A u \in DOMAIN sources : Stems(sources[u].active) /\ Stems(sources[u].pending))'
    BY <1>1, <2>2 DEF Stems
  <2>4. \A u, w \in DOMAIN sources' : u # w =>
          \A x \in {sources'[u].active.id, sources'[u].pending.id} :
            x # 0 => x \notin {sources'[w].active.id, sources'[w].pending.id}
    BY <1>4 DEF OriginInv, NoSnap
  <2> QED
    BY <1>1, <2>3, <2>4 DEF OriginInv
<1> QED
  BY <1>2, <1>3, <1>5, <1>6, <1>7, <1>8

LEMMA DiscardPendingStep ==
  ASSUME Parts, NEW s, NEW sn, DiscardPending(s, sn)
  PROVE  Parts'
<1> USE DEF Parts
<1>1. /\ proc = "up" /\ s \in DOMAIN sources /\ sn # 0 /\ sources[s].pending.id = sn
      /\ sources' = [sources EXCEPT ![s].pending = NoSnap]
      /\ Retrace({o \in origins : o.snap # sn})
      /\ UNCHANGED <<life, given, typed>> /\ UNCHANGED <<shown, tasks, memory, proc, faults, lost>>
  BY DEF DiscardPending, Serving
<1>2. GivenT' /\ given.task = given.task /\ given.source >= given.source
  <2>1. GivenT'
    BY <1>1 DEF GivenT
  <2> QED
    BY <2>1, GivenFields
<1>3. LifeT' /\ TasksT' /\ RunnerT' /\ HandlesT' /\ TaskInv' /\ RunnerInv' /\ CancelInv'
  BY <1>1, <1>2, HandlerFrame DEF LifeT
<1>4. /\ DOMAIN sources' = DOMAIN sources
      /\ sources'[s] = [active |-> sources[s].active, pending |-> NoSnap]
      /\ sources'[s].active = sources[s].active /\ sources'[s].pending = NoSnap
      /\ \A u \in DOMAIN sources : u # s => sources'[u] = sources[u]
  <2>1. sources[s] = [active |-> sources[s].active, pending |-> sources[s].pending]
    BY <1>1, SnapFields
  <2>2. [sources[s] EXCEPT !.pending = NoSnap] = [active |-> sources[s].active, pending |-> NoSnap]
    BY <2>1
  <2> QED
    BY <1>1, <2>2 DEF SourcesT
<1>5. SourcesT'
  <2>1. NoSnap \in Snaps /\ sources[s].active \in Snaps /\ Snaps' = Snaps
    BY <1>1, SnapFields, GivenFields DEF NoSnap, Snaps
  <2>2. \A u \in DOMAIN sources' : sources'[u] \in [active : Snaps, pending : Snaps]
    BY <1>4, <2>1 DEF SourcesT
  <2>3. sources' = [u \in DOMAIN sources' |-> sources'[u]]
    BY <1>1 DEF SourcesT
  <2> QED
    BY <1>1, <1>4, <2>1, <2>2, <2>3 DEF SourcesT
<1>6. OriginsT'
  BY <1>1, Retraced
<1>7. GoneT'
  BY <1>1 DEF GoneT
<1>8. PendingFacesActive'
  BY <1>4 DEF PendingFacesActive
<1>9. \A q \in Rules : \A n : n # sn => ([rule |-> q, snap |-> n] \in origins' <=> [rule |-> q, snap |-> n] \in origins)
  BY <1>1 DEF Retrace
<1>10. OriginInv'
  <2>1. sources[s].active.id # sn
    <3>1. sources[s].pending # NoSnap
      BY <1>1 DEF NoSnap
    <3>2. sources[s].active.id < sources[s].pending.id
      BY <1>1, <3>1 DEF PendingFacesActive
    <3> QED
      BY <1>1, <3>2, SnapFields
  <2>2. ASSUME NEW u \in DOMAIN sources', NEW x \in {sources'[u].active, sources'[u].pending}
        PROVE  Stems(x)'
    <3>1. CASE x = NoSnap
      BY <3>1 DEF Stems, NoSnap
    <3>2. CASE x # NoSnap
      <4>1. Stems(x) /\ x.id # sn
        <5>1. CASE u = s
          BY <1>1, <1>4, <2>1, <2>2, <3>2, <5>1 DEF OriginInv
        <5>2. CASE u # s
          <6>1. u \in DOMAIN sources /\ x \in {sources[u].active, sources[u].pending}
            BY <1>4, <2>2, <5>2
          <6>2. Stems(x)
            BY <6>1 DEF OriginInv
          <6>3. sn \notin {sources[u].active.id, sources[u].pending.id}
            BY <1>1, <5>2, <6>1 DEF OriginInv
          <6> QED
            BY <6>1, <6>2, <6>3
        <5> QED
          BY <5>1, <5>2
      <4> QED
        BY <1>9, <4>1, StemsKept
    <3> QED
      BY <3>1, <3>2
  <2>3. (\A u \in DOMAIN sources : Stems(sources[u].active) /\ Stems(sources[u].pending))'
    BY <2>2 DEF Stems
  <2>4. \A u, w \in DOMAIN sources' : u # w =>
          \A x \in {sources'[u].active.id, sources'[u].pending.id} :
            x # 0 => x \notin {sources'[w].active.id, sources'[w].pending.id}
    BY <1>4 DEF OriginInv, NoSnap
  <2>5. \A q \in Rules : q \in typed' <=> [rule |-> q, snap |-> 0] \in origins'
    BY <1>1, <1>9 DEF OriginInv
  <2>6. typed' \subseteq Rules
    BY <1>1 DEF OriginInv
  <2> QED
    BY <2>3, <2>4, <2>5, <2>6 DEF OriginInv
<1> QED
  BY <1>2, <1>3, <1>5, <1>6, <1>7, <1>8, <1>10

\* An entry is made, moved or taken back: the snapshots and their rules stay.
LEMMA EntriesChange ==
  ASSUME Parts, proc = "up", UNCHANGED <<life, shown, tasks, sources, given, memory, proc, faults, lost>>,
         \A q \in Rules : \A n : n # 0 => ([rule |-> q, snap |-> n] \in origins' <=> [rule |-> q, snap |-> n] \in origins),
         \A q \in Rules : q \in typed' <=> [rule |-> q, snap |-> 0] \in origins',
         typed' \subseteq Rules, OriginsT', life = "present"
  PROVE  Parts'
<1> USE DEF Parts
<1>1. GivenT' /\ given.task = given.task /\ given.source >= given.source
  <2>1. GivenT'
    BY DEF GivenT
  <2> QED
    BY <2>1, GivenFields
<1>2. LifeT' /\ TasksT' /\ RunnerT' /\ HandlesT' /\ TaskInv' /\ RunnerInv' /\ CancelInv'
  BY <1>1, HandlerFrame DEF LifeT
<1>3. SourcesT' /\ PendingFacesActive' /\ GoneT'
  BY DEF SourcesT, Snaps, PendingFacesActive, GoneT
<1>4. OriginInv'
  <2>1. ASSUME NEW u \in DOMAIN sources', NEW x \in {sources'[u].active, sources'[u].pending}
        PROVE  Stems(x)'
    <3>1. Stems(x)
      BY <2>1 DEF OriginInv
    <3>2. CASE x.id = 0
      BY <3>1, <3>2 DEF Stems
    <3>3. CASE x.id # 0
      BY <3>1, <3>3, StemsKept
    <3> QED
      BY <3>2, <3>3
  <2>2. (\A u \in DOMAIN sources : Stems(sources[u].active) /\ Stems(sources[u].pending))'
    BY <2>1 DEF Stems
  <2>3. \A u, w \in DOMAIN sources' : u # w =>
          \A x \in {sources'[u].active.id, sources'[u].pending.id} :
            x # 0 => x \notin {sources'[w].active.id, sources'[w].pending.id}
    BY DEF OriginInv
  <2> QED
    BY <2>2, <2>3 DEF OriginInv
<1> QED
  BY <1>1, <1>2, <1>3, <1>4

LEMMA EntryStep ==
  ASSUME Parts, NEW q \in Rules, NEW new \in Rules,
         CreateEntry(q) \/ DeleteEntry(q) \/ UpdateEntry(q, new)
  PROVE  Parts'
<1> USE DEF Parts
<1> DEFINE own == [rule |-> q, snap |-> 0]
           next == [rule |-> new, snap |-> 0]
<1>1. /\ proc = "up" /\ UNCHANGED <<life, shown, tasks, sources, given, memory, proc, faults, lost>>
  BY DEF CreateEntry, DeleteEntry, UpdateEntry, Serving
<1>2. Origins({q}, 0) = {own} /\ Origins({new}, 0) = {next}
  BY DEF Origins
<1>3. life = "present"
  BY DEF CreateEntry, DeleteEntry, UpdateEntry, Manual, GoneT
<1>4. \A o \in origins : o \in [rule : canonical, snap : 0..given.snap]
  BY DEF OriginsT
<1>5. own \in [rule : Rules, snap : 0..given.snap] /\ next \in [rule : Rules, snap : 0..given.snap]
  <2>1. 0 \in 0..given.snap
    BY GivenFields
  <2> QED
    BY <2>1
<1>6. CASE CreateEntry(q)
  <2>1. origins' = origins \cup {own} /\ canonical' = canonical \cup {q} /\ typed' = typed \cup {q}
    BY <1>2, <1>6 DEF CreateEntry
  <2>2. OriginsT'
    BY <1>1, <1>4, <1>5, <2>1 DEF OriginsT
  <2>3. \A p \in Rules : \A n : n # 0 => ([rule |-> p, snap |-> n] \in origins' <=> [rule |-> p, snap |-> n] \in origins)
    BY <2>1
  <2>4. \A p \in Rules : p \in typed' <=> [rule |-> p, snap |-> 0] \in origins'
    BY <2>1 DEF OriginInv
  <2>5. typed' \subseteq Rules
    BY <2>1 DEF OriginInv
  <2> QED
    BY <1>1, <1>3, <2>2, <2>3, <2>4, <2>5, EntriesChange
<1>7. CASE DeleteEntry(q)
  <2>1. Retrace(origins \ {own}) /\ typed' = typed \ {q}
    BY <1>2, <1>7 DEF DeleteEntry
  <2>2. origins' = origins \ {own}
    BY <2>1 DEF Retrace
  <2>3. OriginsT'
    BY <1>1, <2>1, Retraced
  <2>4. \A p \in Rules : \A n : n # 0 => ([rule |-> p, snap |-> n] \in origins' <=> [rule |-> p, snap |-> n] \in origins)
    BY <2>2
  <2>5. \A p \in Rules : p \in typed' <=> [rule |-> p, snap |-> 0] \in origins'
    BY <2>1, <2>2 DEF OriginInv
  <2>6. typed' \subseteq Rules
    BY <2>1 DEF OriginInv
  <2> QED
    BY <1>1, <1>3, <2>3, <2>4, <2>5, <2>6, EntriesChange
<1>8. CASE UpdateEntry(q, new)
  <2>1. /\ origins' = (origins \ {own}) \cup {next}
        /\ canonical' = {p \in canonical \cup {new} : \E o \in origins' : o.rule = p}
        /\ typed' = (typed \ {q}) \cup {new}
        /\ new \notin {o.rule : o \in Manual} /\ q \in {o.rule : o \in Manual}
    BY <1>2, <1>8 DEF UpdateEntry
  <2>2. q # new
    BY <2>1
  <2>3. OriginsT'
    <3>1. canonical' \subseteq Rules
      BY <2>1 DEF OriginsT
    <3>2. ASSUME NEW o \in origins' PROVE o \in [rule : canonical', snap : 0..given.snap]
      <4>1. CASE o = next
        BY <1>5, <2>1, <4>1
      <4>2. CASE o \in origins
        <5>1. o \in [rule : canonical, snap : 0..given.snap]
          BY <1>4, <4>2
        <5>2. o.rule \in canonical'
          BY <2>1, <3>2, <5>1
        <5> QED
          BY <5>1, <5>2
      <4> QED
        BY <2>1, <3>2, <4>1, <4>2
    <3> QED
      BY <1>1, <3>1, <3>2 DEF OriginsT
  <2>4. \A p \in Rules : \A n : n # 0 => ([rule |-> p, snap |-> n] \in origins' <=> [rule |-> p, snap |-> n] \in origins)
    BY <2>1
  <2>5. \A p \in Rules : p \in typed' <=> [rule |-> p, snap |-> 0] \in origins'
    BY <2>1, <2>2 DEF OriginInv
  <2>6. typed' \subseteq Rules
    BY <2>1 DEF OriginInv
  <2> QED
    BY <1>1, <1>3, <2>3, <2>4, <2>5, <2>6, EntriesChange
<1> QED
  BY <1>6, <1>7, <1>8

-----------------------------------------------------------------------------
\* The writes of a runner

LEMMA CommitFailureStep ==
  ASSUME Parts, NEW t \in Tasks, CommitFailure(t)
  PROVE  Parts'
<1> USE DEF Parts
<1>1. /\ runner[t].pc = "writing" /\ given.snap < MaxSnaps /\ given' = [given EXCEPT !.snap = @ + 1]
      /\ Step(t, Onward(t, FALSE))
      /\ UNCHANGED <<life, shown, tasks, sources, stopped, cancels, canceller, proc, faults, lost>>
      /\ UNCHANGED <<canonical, origins, typed>>
  BY DEF CommitFailure, entries
<1>2. /\ GivenT' /\ given'.task = given.task /\ given'.source = given.source /\ given'.snap >= given.snap
  <2>1. given \in [task : 0..MaxTasks, source : 0..MaxSources, snap : 0..MaxSnaps]
    BY DEF GivenT
  <2>2. given.snap + 1 \in 0..MaxSnaps /\ given.snap + 1 >= given.snap
    BY <1>1, GivenFields, Bounds
  <2> QED
    BY <1>1, <2>1, <2>2 DEF GivenT
<1>3. RunnerT' /\ HandlesT' /\ RunnerInv' /\ CancelInv'
  <2>1. lost' \subseteq Tasks
    BY <1>1 DEF HandlesT
  <2> QED
    BY <1>1, <1>2, <2>1, OnwardShape, RunnerMoves
<1>4. SourcesT' /\ OriginsT' /\ PendingFacesActive' /\ OriginInv'
  BY <1>1, <1>2, ContentFrame
<1>5. LifeT' /\ TaskInv'
  BY <1>1, LifeFrame DEF LifeT
<1>6. TasksT' /\ GoneT'
  BY <1>1, <1>2 DEF TasksT, GoneT
<1> QED
  BY <1>2, <1>3, <1>4, <1>5, <1>6

LEMMA CommitWriteStep ==
  ASSUME Parts, NEW t \in Tasks, NEW c \in Contents, CommitWrite(t, c)
  PROVE  Parts'
<1> USE DEF Parts
<1> PICK s, n, act, pend :
      /\ s = Min(runner[t].todo) /\ n = given.snap + 1
      /\ act = sources[s].active /\ pend = sources[s].pending
  OBVIOUS
<1> DEFINE snap == [id |-> n, content |-> c, vs |-> act.id]
<1>1. /\ runner[t].pc = "writing" /\ s \in DOMAIN sources /\ given.snap < MaxSnaps
      /\ given' = [given EXCEPT !.snap = @ + 1]
      /\ sources' = [sources EXCEPT ![s] = Pointers(@, snap)]
      /\ canonical' = canonical \cup c.rules
      /\ origins' = origins \cup Origins(c.rules, n)
      /\ Step(t, Onward(t, TRUE))
      /\ UNCHANGED <<life, shown, tasks, stopped, cancels, canceller, proc, faults, lost, typed>>
  BY DEF CommitWrite
<1>2. /\ GivenT' /\ given'.task = given.task /\ given'.source = given.source /\ given'.snap = n
      /\ n \in Nat /\ given.snap \in Nat /\ given.snap < n
  <2>1. given \in [task : 0..MaxTasks, source : 0..MaxSources, snap : 0..MaxSnaps]
    BY DEF GivenT
  <2>2. n \in 0..MaxSnaps /\ n \in Nat /\ given.snap \in Nat /\ given.snap < n
    BY <1>1, GivenFields, Bounds
  <2> QED
    BY <1>1, <2>1, <2>2 DEF GivenT
<1>3. RunnerT' /\ HandlesT' /\ RunnerInv' /\ CancelInv'
  <2>1. lost' \subseteq Tasks
    BY <1>1 DEF HandlesT
  <2> QED
    BY <1>1, <1>2, <2>1, OnwardShape, RunnerMoves
<1>4. LifeT' /\ TaskInv'
  BY <1>1, LifeFrame DEF LifeT
<1>5. TasksT' /\ GoneT'
  BY <1>1, <1>2 DEF TasksT, GoneT
<1>6. /\ act \in Snaps /\ pend \in Snaps /\ act.id \in Nat /\ act.id <= given.snap /\ act.id # n
      /\ pend.id # n /\ c.rules \subseteq Rules
  BY <1>1, <1>2, SnapFields, ContentRules
<1>7. /\ snap \in Snaps' /\ NoSnap \in Snaps' /\ Snaps \subseteq Snaps'
      /\ snap.id = n /\ snap.content = c /\ snap.vs = act.id
  <2>1. 0..given.snap \subseteq 0..n /\ n \in 0..n /\ act.id \in 0..n /\ 0 \in 0..n
    BY <1>2, <1>6
  <2> QED
    BY <1>2, <2>1 DEF Snaps, NoSnap
<1> HIDE DEF snap
<1>8. /\ DOMAIN sources' = DOMAIN sources
      /\ sources'[s] = Pointers(sources[s], snap)
      /\ \A u \in DOMAIN sources : u # s => sources'[u] = sources[u]
      /\ sources' = [u \in DOMAIN sources |-> sources'[u]]
  BY <1>1 DEF SourcesT
<1>9. \/ /\ act # NoSnap /\ Anomalous(act.content, c)
         /\ sources'[s] = [active |-> act, pending |-> snap]
         /\ sources'[s].active = act /\ sources'[s].pending = snap
      \/ /\ sources'[s] = [active |-> snap, pending |-> NoSnap]
         /\ sources'[s].active = snap /\ sources'[s].pending = NoSnap
  <2>1. sources[s] = [active |-> act, pending |-> pend]
    BY <1>1, SnapFields
  <2>2. [sources[s] EXCEPT !.pending = snap] = [active |-> act, pending |-> snap]
    BY <2>1
  <2> QED
    BY <1>7, <1>8, <2>1, <2>2 DEF Pointers
<1>10. SourcesT'
  <2>1. sources'[s] \in [active : Snaps', pending : Snaps']
    BY <1>6, <1>7, <1>9
  <2>2. \A u \in DOMAIN sources : sources'[u] \in [active : Snaps', pending : Snaps']
    BY <1>7, <1>8, <2>1 DEF SourcesT
  <2> QED
    BY <1>2, <1>8, <2>2 DEF SourcesT
<1>11. PendingFacesActive'
  <2>1. sources'[s].pending # NoSnap =>
          /\ sources'[s].active # NoSnap /\ sources'[s].active.id < sources'[s].pending.id
          /\ sources'[s].pending.vs = sources'[s].active.id
          /\ Anomalous(sources'[s].active.content, sources'[s].pending.content)
    BY <1>2, <1>6, <1>7, <1>9
  <2> QED
    BY <1>8, <2>1 DEF PendingFacesActive
<1>12. \A o \in Origins(c.rules, n) : o.snap = n /\ o.rule \in c.rules /\ o \in [rule : c.rules, snap : {n}]
  BY DEF Origins
<1>13. OriginsT'
  <2>1. canonical' \subseteq Rules
    BY <1>1, <1>6 DEF OriginsT
  <2>2. ASSUME NEW o \in origins' PROVE o \in [rule : canonical', snap : 0..n]
    <3>1. CASE o \in origins
      <4>1. o \in [rule : canonical, snap : 0..given.snap] /\ 0..given.snap \subseteq 0..n
        BY <1>2, <3>1 DEF OriginsT
      <4> QED
        BY <1>1, <4>1
    <3>2. CASE o \in Origins(c.rules, n)
      <4>1. o \in [rule : c.rules, snap : {n}] /\ n \in 0..n
        BY <1>2, <1>12, <3>2
      <4> QED
        BY <1>1, <4>1
    <3> QED
      BY <1>1, <2>2, <3>1, <3>2
  <2> QED
    BY <1>2, <2>1, <2>2 DEF OriginsT
<1>14. \A q, m : m # n => ([rule |-> q, snap |-> m] \in origins' <=> [rule |-> q, snap |-> m] \in origins)
  BY <1>1, <1>12
<1>15. \A q : q \in c.rules <=> [rule |-> q, snap |-> n] \in origins'
  <2>1. ASSUME NEW q, q \in c.rules PROVE [rule |-> q, snap |-> n] \in origins'
    BY <1>1, <2>1 DEF Origins
  <2>2. ASSUME NEW q, [rule |-> q, snap |-> n] \in origins' PROVE q \in c.rules
    <3>1. [rule |-> q, snap |-> n] \notin origins
      <4>1. n \notin 0..given.snap
        BY <1>2
      <4> QED
        BY <4>1 DEF OriginsT
    <3> QED
      BY <1>1, <1>12, <2>2, <3>1
  <2> QED
    BY <2>1, <2>2
<1>16. OriginInv'
  <2>1. ASSUME NEW u \in DOMAIN sources', NEW x \in {sources'[u].active, sources'[u].pending}
        PROVE  Stems(x)'
    <3>1. CASE x = snap
      BY <1>2, <1>7, <1>15, <3>1 DEF Stems
    <3>2. CASE x = NoSnap
      BY <3>2 DEF Stems, NoSnap
    <3>3. CASE x # snap /\ x # NoSnap
      <4>1. x \in {sources[u].active, sources[u].pending} /\ u \in DOMAIN sources
        BY <1>8, <1>9, <2>1, <3>3
      <4>2. Stems(x) /\ x.id # n
        BY <1>2, <4>1, SnapFields DEF OriginInv
      <4> QED
        BY <1>14, <4>2, StemsKept
    <3> QED
      BY <3>1, <3>2, <3>3
  <2>2. (\A u \in DOMAIN sources : Stems(sources[u].active) /\ Stems(sources[u].pending))'
    BY <2>1 DEF Stems
  <2>3. \A u \in DOMAIN sources : sources[u].active.id # n /\ sources[u].pending.id # n
    BY <1>2, SnapFields
  <2>4. \A x \in {sources'[s].active.id, sources'[s].pending.id} :
          x \in {0, n, sources[s].active.id, sources[s].pending.id}
    BY <1>7, <1>9 DEF NoSnap
  <2>5. \A u, w \in DOMAIN sources' : u # w =>
          \A x \in {sources'[u].active.id, sources'[u].pending.id} :
            x # 0 => x \notin {sources'[w].active.id, sources'[w].pending.id}
    <3> SUFFICES ASSUME NEW u \in DOMAIN sources, NEW w \in DOMAIN sources, u # w,
                        NEW x \in {sources'[u].active.id, sources'[u].pending.id}, x # 0,
                        x \in {sources'[w].active.id, sources'[w].pending.id}
                 PROVE  FALSE
      BY <1>8
    <3>1. x \in {n, sources[u].active.id, sources[u].pending.id} /\ (u # s => x # n)
      BY <1>8, <2>3, <2>4
    <3>2. x \in {n, sources[w].active.id, sources[w].pending.id} /\ (w # s => x # n)
      BY <1>8, <2>3, <2>4
    <3>3. x # n
      BY <3>1, <3>2
    <3> QED
      BY <3>1, <3>2, <3>3 DEF OriginInv
  <2>6. \A q \in Rules : q \in typed' <=> [rule |-> q, snap |-> 0] \in origins'
    <3>1. 0 # n
      BY <1>2
    <3> QED
      BY <1>1, <1>14, <3>1 DEF OriginInv
  <2>7. typed' \subseteq Rules
    BY <1>1 DEF OriginInv
  <2> QED
    BY <2>2, <2>5, <2>6, <2>7 DEF OriginInv
<1> QED
  BY <1>2, <1>3, <1>4, <1>5, <1>10, <1>11, <1>13, <1>16

-----------------------------------------------------------------------------
\* The invariant

LEMMA RunnerStepParts ==
  ASSUME Parts, NEW t \in Tasks, RunnerStep(t)
  PROVE  Parts'
  BY RegisterStep, RunnerGoesOn, CommitWriteStep, CommitFailureStep, FinishStep, ExitStep DEF RunnerStep

LEMMA AdminStepParts ==
  ASSUME Parts, AdminStep
  PROVE  Parts'
<1>1. CASE \E k \in 0..MaxUrls : Create(k) \/ Update(k)
  BY <1>1, CreateStep, UpdateStep
<1>2. CASE \E s \in DOMAIN sources, sn \in 1..given.snap : ActivatePending(s, sn) \/ DiscardPending(s, sn)
  BY <1>2, ActivatePendingStep, DiscardPendingStep
<1>3. CASE \E q \in Rules : CreateEntry(q) \/ DeleteEntry(q) \/ \E new \in Rules : UpdateEntry(q, new)
  BY <1>3, EntryStep
<1>4. CASE (\E v \in Services : Submit(v)) \/ (\E t \in Tasks : AskCancel(t)) \/ MarkFails
  BY <1>4, SubmitStep, HandleStep
<1>5. CASE Delete \/ MarkCancelled \/ ClearFinishedTasks
  BY <1>5, DeleteStep, MarkCancelledStep, ClearFinishedTasksStep
<1> QED
  BY <1>1, <1>2, <1>3, <1>4, <1>5 DEF AdminStep

LEMMA NextParts == Parts /\ [Next]_vars => Parts'
<1> SUFFICES ASSUME Parts, [Next]_vars PROVE Parts'
  OBVIOUS
<1>1. CASE AdminStep
  BY <1>1, AdminStepParts
<1>2. CASE \E t \in Tasks : RunnerStep(t) \/ Timeout(t)
  BY <1>2, RunnerStepParts, HandleStep
<1>3. CASE \E upTo \in Tasks : CleanupOldTasks(upTo)
  BY <1>3, CleanupStep
<1>4. CASE Crash \/ BootTasks \/ BootPools
  BY <1>4, CrashStep, BootTasksStep, BootPoolsStep
<1>5. CASE UNCHANGED vars
  <2> USE DEF Parts
  <2>1. UNCHANGED <<rows, memory, proc, faults, lost>> /\ UNCHANGED <<life, tasks, given>>
    BY <1>5 DEF vars, rows, memory, entries
  <2>2. /\ LifeT' /\ GivenT' /\ TasksT' /\ SourcesT' /\ OriginsT' /\ GoneT'
        /\ TaskInv' /\ PendingFacesActive' /\ OriginInv'
    BY <2>1, RowsStay DEF LifeT
  <2>3. \A t : Running(t)' <=> Running(t)
    BY <2>1 DEF Running
  <2>4. given.task = given.task /\ given.source >= given.source
    BY GivenFields
  <2>5. RunnerT' /\ HandlesT' /\ RunnerInv' /\ CancelInv'
    BY <2>1, <2>2, <2>3, <2>4, MemoryFrame
  <2> QED
    BY <2>2, <2>5
<1> QED
  BY <1>1, <1>2, <1>3, <1>4, <1>5 DEF Next

\* The invariant is inductive.
THEOREM Invariance == Spec => []IInv
<1>1. Parts <=> IInv
  BY Types DEF Parts, IInv
<1>2. Spec => []Parts
  BY InitParts, NextParts, PTL DEF Spec
<1> QED
  BY <1>1, <1>2, PTL

\* Every variable keeps its type, and nothing outlives the pool (TypeOK).
THEOREM Typed == Spec => []TypeOK
<1>1. IInv => TypeOK
  BY DEF IInv
<1> QED
  BY <1>1, Invariance, PTL

-----------------------------------------------------------------------------
\* What follows from it

\* At most one task runs, and exactly one when the pool says so.
LEMMA ShowsRunning == Parts => PoolShowsRunning
<1> SUFFICES ASSUME Parts, proc = "up"
             PROVE  Cardinality({t \in DOMAIN tasks : Running(t)}) = IF shown = "running" THEN 1 ELSE 0
  BY DEF PoolShowsRunning
<1> DEFINE S == {t \in DOMAIN tasks : Running(t)}
<1>1. CASE shown = "running"
  <2>1. PICK t \in DOMAIN tasks : Running(t)
    BY <1>1 DEF Parts, TaskInv
  <2>2. S = {t}
    BY <2>1 DEF Parts, TaskInv
  <2> QED
    BY <1>1, <2>2, FS_Singleton
<1>2. CASE shown # "running"
  <2>1. S = {}
    BY <1>2 DEF Parts, TaskInv
  <2> QED
    BY <1>2, <2>1, FS_EmptySet
<1> QED
  BY <1>1, <1>2

LEMMA HasRunner == Parts => RunningHasRunner
  BY DEF Parts, RunnerInv, RunningHasRunner, Alive

\* The rules a reader lists come from an entry or from a snapshot that is active.
LEMMA RulesAreDue == Parts => EntriesAreDue
<1> SUFFICES ASSUME Parts
             PROVE  Listed = typed \cup UNION {sources[s].active.content.rules : s \in DOMAIN sources}
  BY DEF EntriesAreDue
<1> USE DEF Parts
<1>1. ASSUME NEW q \in Listed
      PROVE  q \in typed \/ \E s \in DOMAIN sources : q \in sources[s].active.content.rules
  <2>1. PICK o \in origins : /\ o.rule = q /\ o.rule \in canonical
                             /\ o.snap = 0 \/ \E s \in DOMAIN sources : sources[s].active.id = o.snap
    BY DEF Listed
  <2>2. o = [rule |-> q, snap |-> o.snap] /\ q \in Rules
    BY <2>1 DEF OriginsT
  <2>3. CASE o.snap = 0
    BY <2>2, <2>3 DEF OriginInv
  <2>4. CASE o.snap # 0
    <3>1. PICK s \in DOMAIN sources : sources[s].active.id = o.snap
      BY <2>1, <2>4
    <3>2. Stems(sources[s].active)
      BY DEF OriginInv
    <3> QED
      BY <2>2, <2>4, <3>1, <3>2 DEF Stems
  <2> QED
    BY <2>3, <2>4
<1>2. ASSUME NEW q \in typed PROVE q \in Listed
  <2>1. q \in Rules /\ [rule |-> q, snap |-> 0] \in origins
    BY DEF OriginInv
  <2>2. PICK o : o = [rule |-> q, snap |-> 0]
    OBVIOUS
  <2>3. o \in origins /\ o.rule = q /\ o.snap = 0 /\ o.rule \in canonical
    BY <2>1, <2>2 DEF OriginsT
  <2> QED
    BY <2>3 DEF Listed
<1>3. ASSUME NEW s \in DOMAIN sources, NEW q \in sources[s].active.content.rules PROVE q \in Listed
  <2>1. q \in Rules
    BY SnapFields
  <2>2. sources[s].active.id # 0
    <3>1. sources[s].active # NoSnap
      <4>1. NoSnap.content.rules = {}
        BY DEF NoSnap, Nothing
      <4> QED
        BY <4>1
    <3> QED
      BY <3>1 DEF OriginInv, Stems
  <2>3. [rule |-> q, snap |-> sources[s].active.id] \in origins
    BY <2>1, <2>2 DEF OriginInv, Stems
  <2>4. PICK o : o = [rule |-> q, snap |-> sources[s].active.id]
    OBVIOUS
  <2>5. o \in origins /\ o.rule = q /\ o.snap = sources[s].active.id /\ o.rule \in canonical
    BY <2>3, <2>4 DEF OriginsT
  <2> QED
    BY <2>5 DEF Listed
<1> QED
  BY <1>1, <1>2, <1>3

\* The pool shows what runs, what runs has a runner, a candidate faces the active snapshot,
\* and the rules listed are the ones due, with any number of runners on their way out
\* (PoolConsistent).
THEOREM Consistent == Spec => []PoolConsistent
<1>1. IInv => PoolConsistent
  <2>1. IInv => Parts
    BY Types DEF Parts, IInv
  <2>2. Parts => PendingFacesActive
    BY DEF Parts
  <2> QED
    BY <2>1, <2>2, ShowsRunning, HasRunner, RulesAreDue DEF PoolConsistent
<1> QED
  BY <1>1, Invariance, PTL

-----------------------------------------------------------------------------
\* What a step may do

\* Only CommitWrite and CommitFailure number a snapshot, for a source that exists, and so
\* for a pool that exists.
LEMMA NumberingStep ==
  ASSUME Parts, [Next]_vars, given'.snap # given.snap
  PROVE  life = "present"
<1> USE DEF Parts
<1>1. ASSUME NEW t \in Tasks, CommitFailure(t) \/ \E c \in Contents : CommitWrite(t, c)
      PROVE  life = "present"
  <2>1. DOMAIN sources # {}
    BY <1>1 DEF CommitFailure, CommitWrite
  <2> QED
    BY <2>1 DEF GoneT
<1>2. given \in [task : 0..MaxTasks, source : 0..MaxSources, snap : 0..MaxSnaps]
  BY DEF GivenT
<1>3. ASSUME NEW k \in 0..MaxUrls, Create(k) \/ Update(k) PROVE FALSE
  BY <1>2, <1>3 DEF Create, Update
<1>4. ASSUME NEW v \in Services, Submit(v) PROVE FALSE
  BY <1>2, <1>4 DEF Submit
<1>5. ASSUME NEW s, NEW sn, ActivatePending(s, sn) \/ DiscardPending(s, sn) PROVE FALSE
  BY <1>5 DEF ActivatePending, DiscardPending
<1>6. ASSUME NEW q, NEW new, CreateEntry(q) \/ DeleteEntry(q) \/ UpdateEntry(q, new) PROVE FALSE
  BY <1>6 DEF CreateEntry, DeleteEntry, UpdateEntry
<1>7. ~(Delete \/ MarkCancelled \/ MarkFails \/ ClearFinishedTasks \/ Crash \/ BootTasks \/ BootPools)
  BY DEF Delete, MarkCancelled, MarkFails, ClearFinishedTasks, Crash, BootTasks, BootPools, rows
<1>8. ASSUME NEW t \in Tasks, AskCancel(t) \/ Timeout(t) \/ CleanupOldTasks(t) PROVE FALSE
  BY <1>8 DEF AskCancel, Timeout, CleanupOldTasks, rows
<1>9. ASSUME NEW t \in Tasks,
             \/ Register(t) \/ OpenPool(t) \/ OpenFails(t) \/ Interrupted(t) \/ AllDone(t)
             \/ \E ok \in BOOLEAN : Fetch(t, ok)
             \/ BeginWrite(t) \/ NoWrite(t) \/ AbortWrite(t) \/ Finish(t) \/ FinishFails(t) \/ Exit(t)
      PROVE  FALSE
  BY <1>9 DEF Register, OpenPool, OpenFails, Interrupted, AllDone, Fetch, BeginWrite, NoWrite, AbortWrite,
              Finish, FinishFails, Exit, rows
<1>10. ~UNCHANGED vars
  BY DEF vars
<1>11. CASE \E t \in Tasks : RunnerStep(t) \/ Timeout(t)
  BY <1>1, <1>8, <1>9, <1>11 DEF RunnerStep
<1>12. CASE AdminStep
  BY <1>3, <1>4, <1>5, <1>6, <1>7, <1>8, <1>12 DEF AdminStep
<1> QED
  BY <1>7, <1>8, <1>10, <1>11, <1>12 DEF Next

\* Handlers and runners end a task only while it runs.
LEMMA EndOnce ==
  ASSUME NEW u \in DOMAIN tasks, ~Running(u), NEW t, NEW status, End(t, status)
  PROVE  tasks'[u] = tasks[u]
  BY DEF End, Put, Running

LEMMA FinalStep ==
  ASSUME Parts, [Next]_vars, NEW u \in DOMAIN tasks, ~Running(u), u \in DOMAIN tasks'
  PROVE  tasks'[u] = tasks[u]
<1> USE DEF Parts
<1>1. ASSUME NEW t \in Tasks, Finish(t) PROVE tasks'[u] = tasks[u]
  BY <1>1, EndOnce DEF Finish
<1>2. CASE MarkCancelled
  BY <1>2, EndOnce DEF MarkCancelled
<1>3. CASE Delete \/ ClearFinishedTasks \/ \E upTo \in Tasks : CleanupOldTasks(upTo)
  BY <1>3 DEF Delete, ClearFinishedTasks, CleanupOldTasks, Keep
<1>4. CASE BootTasks
  BY <1>4 DEF BootTasks
<1>5. ASSUME NEW v \in Services, Submit(v) PROVE tasks'[u] = tasks[u]
  <2>1. PICK t : t = given.task + 1 /\ tasks' = Put(tasks, t, [status |-> "running", restarted |-> FALSE])
    BY <1>5 DEF Submit
  <2>2. u # t
    BY <2>1, GivenFields DEF TasksT
  <2> QED
    BY <2>1, <2>2 DEF Put
<1>6. ASSUME NEW k, Create(k) \/ Update(k) PROVE tasks' = tasks
  BY <1>6 DEF Create, Update
<1>7. ASSUME NEW s, NEW sn, ActivatePending(s, sn) \/ DiscardPending(s, sn) PROVE tasks' = tasks
  BY <1>7 DEF ActivatePending, DiscardPending
<1>8. ASSUME NEW q, NEW new, CreateEntry(q) \/ DeleteEntry(q) \/ UpdateEntry(q, new) PROVE tasks' = tasks
  BY <1>8 DEF CreateEntry, DeleteEntry, UpdateEntry
<1>9. CASE MarkFails \/ Crash \/ BootPools
  BY <1>9 DEF MarkFails, Crash, BootPools, rows
<1>10. ASSUME NEW t \in Tasks, AskCancel(t) \/ Timeout(t) PROVE tasks' = tasks
  BY <1>10 DEF AskCancel, Timeout, rows
<1>11. ASSUME NEW t \in Tasks,
             \/ Register(t) \/ OpenPool(t) \/ OpenFails(t) \/ Interrupted(t) \/ AllDone(t)
             \/ \E ok \in BOOLEAN : Fetch(t, ok)
             \/ BeginWrite(t) \/ NoWrite(t) \/ AbortWrite(t) \/ FinishFails(t) \/ Exit(t)
             \/ CommitFailure(t) \/ \E c \in Contents : CommitWrite(t, c)
      PROVE  tasks' = tasks
  BY <1>11 DEF Register, OpenPool, OpenFails, Interrupted, AllDone, Fetch, BeginWrite, NoWrite, AbortWrite,
               FinishFails, Exit, CommitFailure, CommitWrite, rows
<1>12. CASE UNCHANGED vars
  BY <1>12 DEF vars
<1>13. CASE \E t \in Tasks : RunnerStep(t) \/ Timeout(t)
  BY <1>1, <1>10, <1>11, <1>13 DEF RunnerStep
<1>14. CASE AdminStep
  BY <1>2, <1>3, <1>5, <1>6, <1>7, <1>8, <1>9, <1>10, <1>14 DEF AdminStep
<1> QED
  BY <1>3, <1>4, <1>9, <1>12, <1>13, <1>14 DEF Next

\* A task that has ended writes no snapshot any more, whoever ended it and however late its
\* runner notices, and its status stays (EndedIsOver).
THEOREM Over == Spec => EndedIsOver
<1>1. Parts /\ [Next]_vars =>
        [\A t \in Tasks : (runner[t].pc = "writing" /\ given'.snap # given.snap) => Running(t)]_vars
  <2> SUFFICES ASSUME Parts, [Next]_vars, NEW t \in Tasks, runner[t].pc = "writing", given'.snap # given.snap
               PROVE  Running(t)
    OBVIOUS
  <2>1. life = "present"
    BY NumberingStep
  <2> QED
    BY <2>1 DEF Parts, RunnerInv
<1>2. Parts /\ [Next]_vars =>
        [\A t \in DOMAIN tasks : ~Running(t) => (t \in DOMAIN tasks' => tasks'[t] = tasks[t])]_vars
  BY FinalStep
<1>3. Spec => []Parts
  BY InitParts, NextParts, PTL DEF Spec
<1>4. Spec => WriterRuns
  BY <1>1, <1>3, PTL DEF Spec, WriterRuns
<1>5. Spec => EndIsFinal
  BY <1>2, <1>3, PTL DEF Spec, EndIsFinal
<1> QED
  BY <1>4, <1>5, PTL DEF EndedIsOver

=============================================================================
