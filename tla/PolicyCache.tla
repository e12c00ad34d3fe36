---------------------------- MODULE PolicyCache ----------------------------
(***************************************************************************)
(* The policy cache of the authorization module (checker.go) on every core *)
(* instance, and the admin calls that change the policies (handler.go).    *)
(*                                                                         *)
(* The policy table is a version number: each committed write is the next  *)
(* version.  An instance's cache is the version it has compiled, 0 before  *)
(* its first load, which denies everything.                                *)
(***************************************************************************)
EXTENDS Naturals, FiniteSets

CONSTANTS Instances,   \* core replicas
          Goroutines,  \* goroutines that run admin calls and reloads
          TTL,         \* cacheTTL, in clock ticks
          MaxWrites,   \* bound on policy writes
          MaxFaults    \* bound on failed loads, cancelled calls and restarts

VARIABLES
  db,          \* version of authz.policies
  cache,       \* Checker.policies of each instance
  age,         \* ticks since Checker.loadedAt, saturated at TTL
  due,         \* a call found loadedAt too old and has not swapped the flag yet
  refreshing,  \* Checker.refreshing
  task,        \* what each goroutine does
  faults

vars == <<db, cache, age, due, refreshing, task, faults>>

Versions == 1..(MaxWrites + 1)

\* A goroutine at instance "at"; set is the version it has read.
Task == [kind : {"none", "reload", "admin"},
         pc : {"idle", "write", "read", "install", "stamp", "return"},
         at : Instances, set : 0..(MaxWrites + 1)]

IdleTask == [kind |-> "none", pc |-> "idle", at |-> CHOOSE i \in Instances : TRUE, set |-> 0]

TypeOK == /\ db \in Versions
          /\ cache \in [Instances -> 0..db]
          /\ age \in [Instances -> 0..TTL]
          /\ due \in [Instances -> BOOLEAN]
          /\ refreshing \in [Instances -> BOOLEAN]
          /\ task \in [Goroutines -> Task]
          /\ faults \in 0..MaxFaults

\* Every instance has booted; its first load (Module.Start) worked or not.
Init == /\ db = 1
        /\ cache \in [Instances -> {0, 1}]
        /\ age = [i \in Instances |-> IF cache[i] = 0 THEN TTL ELSE 0]
        /\ due = [i \in Instances |-> FALSE]
        /\ refreshing = [i \in Instances |-> FALSE]
        /\ task = [g \in Goroutines |-> IdleTask]
        /\ faults = 0

Fault == faults < MaxFaults /\ faults' = faults + 1
Reloading(i) == {g \in Goroutines : task[g].kind = "reload" /\ task[g].at = i}

-----------------------------------------------------------------------------
(* Decide *)

\* Mutant: only a cache that was never loaded counts as old.
FindStaleUnloaded(i) ==
  /\ age[i] >= TTL /\ cache[i] = 0
  /\ due' = [due EXCEPT ![i] = TRUE]
  /\ UNCHANGED <<db, cache, age, refreshing, task, faults>>

\* maybeRefresh, first half: a call reads loadedAt and finds it too old.
FindStale(i) ==
  /\ age[i] >= TTL
  /\ due' = [due EXCEPT ![i] = TRUE]
  /\ UNCHANGED <<db, cache, age, refreshing, task, faults>>

\* Mutant: the flag is tested by nobody.
KickAlways(i) == due[i]

\* Second half: the compare-and-swap succeeds, perhaps after the reload that
\* made the stamp young again.
Kick(i) == due[i] /\ ~refreshing[i]

\* A call starts a reload if its swap succeeds, and decides on the set in the
\* cache.  Another call may still be between the two halves.
Decide(i) ==
  /\ \/ /\ Kick(i)
        /\ refreshing' = [refreshing EXCEPT ![i] = TRUE]
        /\ \E g \in Goroutines :
             /\ task[g].pc = "idle"
             /\ task' = [task EXCEPT ![g] = [kind |-> "reload", pc |-> "read",
                                             at |-> i, set |-> 0]]
     \/ ~Kick(i) /\ UNCHANGED <<refreshing, task>>
  /\ due' \in {due, [due EXCEPT ![i] = FALSE]}
  /\ UNCHANGED <<db, cache, age, faults>>

-----------------------------------------------------------------------------
(* UpsertPolicy and DeletePolicy: write, then Refresh *)

AdminBegin(g, i) ==
  /\ task[g].pc = "idle" /\ db <= MaxWrites
  /\ task' = [task EXCEPT ![g] = [kind |-> "admin", pc |-> "write", at |-> i,
                                  set |-> 0]]
  /\ UNCHANGED <<due, db, cache, age, refreshing, faults>>

\* The statement commits by itself; a delete of no row ends the call.
AdminWrite(g) ==
  /\ task[g].pc = "write"
  /\ \/ /\ db <= MaxWrites
        /\ db' = db + 1
        /\ task' = [task EXCEPT ![g].pc = "read"]
     \/ task' = [task EXCEPT ![g] = IdleTask] /\ UNCHANGED db
  /\ UNCHANGED <<due, cache, age, refreshing, faults>>

AdminReturn(g) ==
  /\ task[g].pc = "return" /\ task[g].kind = "admin"
  /\ task' = [task EXCEPT ![g] = IdleTask]
  /\ UNCHANGED <<due, db, cache, age, refreshing, faults>>

-----------------------------------------------------------------------------
(* Refresh, in an admin call or a background reload *)

\* ListEnabledPolicies, and the compilation of its rows.
RefreshRead(g) ==
  /\ task[g].pc = "read"
  /\ task' = [task EXCEPT ![g].pc = "install", ![g].set = db]
  /\ UNCHANGED <<due, db, cache, age, refreshing, faults>>

\* The whole set is replaced under the lock.
RefreshInstall(g) ==
  /\ task[g].pc = "install"
  /\ cache' = [cache EXCEPT ![task[g].at] = task[g].set]
  /\ task' = [task EXCEPT ![g].pc = "stamp"]
  /\ UNCHANGED <<due, db, age, refreshing, faults>>

\* loadedAt is stored after the lock is released.
RefreshStamp(g) ==
  /\ task[g].pc = "stamp"
  /\ age' = [age EXCEPT ![task[g].at] = 0]
  /\ task' = [task EXCEPT ![g].pc = "return"]
  /\ UNCHANGED <<due, db, cache, refreshing, faults>>

\* The deferred refreshing.Store(false).
ReloadReturn(g) ==
  /\ task[g].pc = "return" /\ task[g].kind = "reload"
  /\ refreshing' = [refreshing EXCEPT ![task[g].at] = FALSE]
  /\ task' = [task EXCEPT ![g] = IdleTask]
  /\ UNCHANGED <<due, db, cache, age, faults>>

\* The load fails, or the admin's call is cancelled: the write stays, the old
\* set too.
RefreshFails(g) ==
  /\ task[g].pc = "read"
  /\ Fault
  /\ refreshing' = IF task[g].kind = "reload"
                     THEN [refreshing EXCEPT ![task[g].at] = FALSE] ELSE refreshing
  /\ task' = [task EXCEPT ![g] = IdleTask]
  /\ UNCHANGED <<due, db, cache, age>>

-----------------------------------------------------------------------------

\* The instance restarts: Module.Start loads the policies, or fails and leaves
\* the empty set, before the first call is served.
Restart(i) ==
  /\ Fault
  /\ \/ cache' = [cache EXCEPT ![i] = db] /\ age' = [age EXCEPT ![i] = 0]
     \/ cache' = [cache EXCEPT ![i] = 0] /\ age' = [age EXCEPT ![i] = TTL]
  /\ due' = [due EXCEPT ![i] = FALSE]
  /\ refreshing' = [refreshing EXCEPT ![i] = FALSE]
  /\ task' = [g \in Goroutines |-> IF task[g].at = i THEN IdleTask ELSE task[g]]
  /\ UNCHANGED db

Tick ==
  /\ age' = [i \in Instances |-> IF age[i] < TTL THEN age[i] + 1 ELSE age[i]]
  /\ UNCHANGED <<due, db, cache, refreshing, task, faults>>

Step(g) == \/ AdminWrite(g) \/ RefreshRead(g) \/ RefreshInstall(g) \/ RefreshStamp(g)
           \/ AdminReturn(g) \/ ReloadReturn(g)

Next == \/ \E i \in Instances : FindStale(i) \/ Decide(i) \/ Restart(i)
        \/ \E g \in Goroutines : \/ Step(g) \/ RefreshFails(g)
                                 \/ \E i \in Instances : AdminBegin(g, i)
        \/ Tick

Spec == Init /\ [][Next]_vars

\* The clock runs, goroutines are scheduled, and every instance is asked for
\* decisions again and again; faults are finitely many.
FairSpec == /\ Spec
            /\ WF_vars(Tick)
            /\ \A g \in Goroutines : WF_vars(Step(g))
            /\ \A i \in Instances : SF_vars(FindStale(i)) /\ SF_vars(Decide(i) /\ Kick(i))

-----------------------------------------------------------------------------

\* "maybeRefresh kicks ONE background reload": an instance never runs two, and
\* the flag is up exactly as long as one runs, whatever fails in between.
OneReload == \A i \in Instances :
               /\ Cardinality(Reloading(i)) <= 1
               /\ refreshing[i] <=> Reloading(i) # {}

\* Every instance that keeps deciding ends up with the last written policies,
\* although an older load may be installed over a newer one.
CatchesUp == <>[](\A i \in Instances : cache[i] = db)
=============================================================================
