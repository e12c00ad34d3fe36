--------------------------- MODULE StorageProofs ---------------------------
(***************************************************************************)
(* Proofs about how the core service stores and reads: Notes implements    *)
(* NoteStore and keeps its events in order, for any notes, bodies,         *)
(* requests and bounds; ReadThroughCache bounds staleness, for any         *)
(* instances, callers and lifetimes.                                       *)
(***************************************************************************)
EXTENDS MCStorage, Integers, TLAPS

-----------------------------------------------------------------------------
(* The notes of Notes *)

\* A request past its write holds the row lock of its note, and the committed
\* row is still the one its write and its event follow.
Held == \A r \in Requests :
  /\ req[r].pc \in {"publish", "commit"} =>
       /\ lock[req[r].id] = r
       /\ req[r].read = row[req[r].id].version
       /\ req[r].write = req[r].read + 1
  /\ req[r].pc = "commit" => req[r].event = req[r].write

\* The locks belong to such requests.
Locks == \A i \in Ids : lock[i] # Free =>
  /\ req[lock[i]].id = i
  /\ req[lock[i]].pc \in {"publish", "commit"}

\* A note about to be created does not exist, and no other request creates it.
Creating == \A r \in Requests : req[r].pc = "insert" =>
  /\ row[req[r].id].version = 0 /\ req[r].read = 0
  /\ lock[req[r].id] = Free
  /\ \A s \in Requests : s # r /\ req[s].pc = "insert" => req[s].id # req[r].id

\* A note about to be updated exists.
Updating == \A r \in Requests : req[r].pc = "update" =>
  /\ row[req[r].id].version > 0
  /\ req[r].read \in 1..(MaxVersion - 1)
  /\ req[r].read = req[r].version

\* Updates present a version below the bound.
Presenting == \A r \in Requests :
  req[r].pc = "get" => req[r].version \in 1..(MaxVersion - 1)

\* The inductive invariant.
IInv == TypeOK /\ Held /\ Locks /\ Creating /\ Updating /\ Presenting

\* The arithmetic of version numbers, once.
LEMMA VersionFacts ==
  /\ Versions \subseteq Nat /\ 0 \in Versions /\ 1 \in Versions
  /\ 1..MaxVersion \subseteq Versions
  /\ \A v \in 1..(MaxVersion - 1) : v + 1 \in Versions
  /\ \A v \in Versions : v + 1 \in Versions => v + 1 \in 1..MaxVersion
  BY NotesAssumption DEF Versions

\* The inductive invariant holds initially.
LEMMA Initial == Init => IInv
<1> SUFFICES ASSUME Init PROVE IInv
  OBVIOUS
<1> USE NotesAssumption DEF Init
<1>1. req \in [Requests -> Request] /\ \A r \in Requests : req[r].pc = "idle"
  BY VersionFacts DEF Request
<1>2. outbox \in Seq([note : Ids, version : 1..MaxVersion, body : Bodies])
  OBVIOUS
<1>3. TypeOK
  BY <1>1, <1>2, VersionFacts DEF TypeOK
<1> QED
  BY <1>1, <1>3 DEF IInv, Held, Locks, Creating, Updating, Presenting

\* What the invariant says of single requests, rows and locks.
LEMMA Typing ==
  ASSUME IInv
  PROVE  /\ \A r \in Requests : /\ req[r] \in Request /\ req[r].id \in Ids
                                /\ req[r].body \in Bodies /\ req[r].version \in Nat
                                /\ req[r].read \in Nat /\ req[r].write \in Nat
         /\ \A i \in Ids : row[i].version \in Nat /\ lock[i] \in Requests \cup {Free}
<1>1. Versions \subseteq Nat
  BY VersionFacts
<1>2. ASSUME NEW r \in Requests
      PROVE  /\ req[r] \in Request /\ req[r].id \in Ids
             /\ req[r].body \in Bodies /\ req[r].version \in Nat
             /\ req[r].read \in Nat /\ req[r].write \in Nat
  BY <1>1 DEF IInv, TypeOK, Request
<1>3. ASSUME NEW i \in Ids
      PROVE  row[i].version \in Nat /\ lock[i] \in Requests \cup {Free}
  BY <1>1 DEF IInv, TypeOK
<1> QED
  BY <1>2, <1>3

\* A request that goes on leaves the others alone.
LEMMA Continuing ==
  ASSUME IInv, NEW r \in Requests, NEW new \in Request, Continue(r, new)
  PROVE  /\ req' \in [Requests -> Request] /\ req'[r] = new
         /\ \A s \in Requests : s # r => req'[s] = req[s]
  BY DEF IInv, TypeOK, Continue

\* The end of a transaction frees its locks and changes no other request.
LEMMA Ending ==
  ASSUME IInv, NEW r \in Requests, End(r)
  PROVE  /\ req' \in [Requests -> Request] /\ req'[r].pc = "idle"
         /\ \A s \in Requests : s # r => req'[s] = req[s]
         /\ lock' \in [Ids -> Requests \cup {Free}]
         /\ \A i \in Ids : lock'[i] = IF lock[i] = r THEN Free ELSE lock[i]
<1> DEFINE new == [req[r] EXCEPT !.pc = "idle", !.version = 0, !.read = 0,
                                 !.write = 0, !.event = 0]
<1>1. req[r] \in Request
  BY DEF IInv, TypeOK
<1>2. new \in Request /\ new.pc = "idle"
  BY <1>1, VersionFacts DEF Request
<1>3. Continue(r, new)
  BY DEF End
<1> HIDE DEF new
<1>4. /\ req' \in [Requests -> Request] /\ req'[r] = new
      /\ \A s \in Requests : s # r => req'[s] = req[s]
  BY <1>2, <1>3, Continuing
<1>5. /\ lock' \in [Ids -> Requests \cup {Free}]
      /\ \A i \in Ids : lock'[i] = IF lock[i] = r THEN Free ELSE lock[i]
  BY DEF End, IInv, TypeOK
<1> QED
  BY <1>2, <1>4, <1>5

\* A request that ends without a commit leaves the invariant true.
LEMMA EndPreserves ==
  ASSUME IInv, NEW r \in Requests, End(r), UNCHANGED <<row, outbox>>,
         faults' \in 0..MaxFaults
  PROVE  IInv'
<1> USE NotesAssumption
<1>1. /\ req' \in [Requests -> Request] /\ req'[r].pc = "idle"
      /\ \A s \in Requests : s # r => req'[s] = req[s]
      /\ lock' \in [Ids -> Requests \cup {Free}]
      /\ \A i \in Ids : lock'[i] = IF lock[i] = r THEN Free ELSE lock[i]
  BY Ending
<1>2. TypeOK'
  BY <1>1 DEF IInv, TypeOK
<1>3. Held'
  BY <1>1, Typing DEF IInv, Held, Locks
<1>4. Locks'
  BY <1>1, Typing DEF IInv, Held, Locks, Creating
<1>5. Creating'
  BY <1>1, Typing DEF IInv, Held, Locks, Creating, Updating
<1>6. Updating' /\ Presenting'
  BY <1>1, Typing DEF IInv, Held, Updating, Presenting
<1> QED
  BY <1>2, <1>3, <1>4, <1>5, <1>6 DEF IInv

\* Every step of a request preserves the inductive invariant.
LEMMA Inductive == IInv /\ [Next]_vars => IInv'
<1> SUFFICES ASSUME IInv, [Next]_vars PROVE IInv'
  OBVIOUS
<1> USE NotesAssumption
<1>1. ASSUME NEW r \in Requests, NEW i \in Ids, NEW b \in Bodies, CreateBegin(r, i, b)
      PROVE IInv'
  <2> DEFINE new == [pc |-> "insert", id |-> i, body |-> b, version |-> 0,
                     read |-> 0, write |-> 0, event |-> 0]
  <2>1. /\ req[r] \in Request /\ req[r].id \in Ids
        /\ row[i].version = 0 /\ req[r].pc = "idle" /\ lock[i] = Free
        /\ \A s \in Requests : req[s].pc # "idle" => req[s].id # i
        /\ UNCHANGED <<row, outbox, lock, faults>>
    BY <1>1 DEF CreateBegin, IInv, TypeOK, Request, Locks
  <2>2. /\ new \in Request
        /\ new.pc = "insert" /\ new.id = i /\ new.read = 0
    BY <2>1 DEF Request, IInv, TypeOK, Locks
  <2>3. Continue(r, new)
    BY <1>1, <2>1 DEF CreateBegin
  <2> HIDE DEF new
  <2>4. /\ req' \in [Requests -> Request] /\ req'[r] = new
        /\ \A s \in Requests : s # r => req'[s] = req[s]
    BY <2>2, <2>3, Continuing
  <2>5. TypeOK'
    BY <2>1, <2>2, <2>4 DEF IInv, TypeOK
  <2>6. Held'
    BY <2>1, <2>2, <2>4, Typing DEF IInv, Held, Locks
  <2>7. Locks'
    BY <2>1, <2>2, <2>4, Typing DEF IInv, Held, Locks, Creating
  <2>8. Creating'
    BY <2>1, <2>2, <2>4, Typing DEF IInv, Held, Locks, Creating, Updating
  <2>9. Updating' /\ Presenting'
    BY <2>1, <2>2, <2>4, Typing DEF IInv, Held, Updating, Presenting
  <2> QED
    BY <2>5, <2>6, <2>7, <2>8, <2>9 DEF IInv
<1>2. ASSUME NEW r \in Requests, Insert(r) PROVE IInv'
  <2> DEFINE new == [req[r] EXCEPT !.pc = "publish", !.write = 1]
  <2>1. /\ req[r] \in Request /\ req[r].id \in Ids
        /\ req[r].pc = "insert" /\ req[r].read = 0
        /\ row[req[r].id].version = 0 /\ lock[req[r].id] = Free
        /\ lock' \in [Ids -> Requests \cup {Free}]
        /\ \A i \in Ids : lock'[i] = IF i = req[r].id THEN r ELSE lock[i]
        /\ UNCHANGED <<row, outbox, faults>>
    BY <1>2, Typing DEF Insert, IInv, TypeOK, Creating
  <2>2. /\ new \in Request
        /\ new.pc = "publish" /\ new.id = req[r].id /\ new.read = req[r].read /\ new.write = 1
    BY <2>1, VersionFacts DEF Request
  <2>3. Continue(r, new)
    BY <1>2, <2>1 DEF Insert
  <2> HIDE DEF new
  <2>4. /\ req' \in [Requests -> Request] /\ req'[r] = new
        /\ \A s \in Requests : s # r => req'[s] = req[s]
    BY <2>2, <2>3, Continuing
  <2>5. TypeOK'
    BY <2>1, <2>2, <2>4 DEF IInv, TypeOK
  <2>6. Held'
    BY <2>1, <2>2, <2>4, Typing DEF IInv, Held, Locks
  <2>7. Locks'
    BY <2>1, <2>2, <2>4, Typing DEF IInv, Held, Locks, Creating
  <2>8. Creating'
    BY <2>1, <2>2, <2>4, Typing DEF IInv, Held, Locks, Creating, Updating
  <2>9. Updating' /\ Presenting'
    BY <2>1, <2>2, <2>4, Typing DEF IInv, Held, Updating, Presenting
  <2> QED
    BY <2>5, <2>6, <2>7, <2>8, <2>9 DEF IInv
<1>3. ASSUME NEW r \in Requests, NEW i \in Ids, NEW b \in Bodies, NEW v \in 1..MaxVersion,
             UpdateBegin(r, i, b, v)
      PROVE IInv'
  <2> DEFINE new == [pc |-> "get", id |-> i, body |-> b, version |-> v,
                     read |-> 0, write |-> 0, event |-> 0]
  <2>1. /\ req[r] \in Request /\ req[r].id \in Ids
        /\ v \in 1..(MaxVersion - 1) /\ req[r].pc = "idle"
        /\ UNCHANGED <<row, outbox, lock, faults>>
    BY <1>3 DEF UpdateBegin, IInv, TypeOK, Request
  <2>2. /\ new \in Request
        /\ new.pc = "get" /\ new.id = i /\ new.version = v
    BY <2>1, VersionFacts DEF Request
  <2>3. Continue(r, new)
    BY <1>3, <2>1 DEF UpdateBegin
  <2> HIDE DEF new
  <2>4. /\ req' \in [Requests -> Request] /\ req'[r] = new
        /\ \A s \in Requests : s # r => req'[s] = req[s]
    BY <2>2, <2>3, Continuing
  <2>5. TypeOK'
    BY <2>1, <2>2, <2>4 DEF IInv, TypeOK
  <2>6. Held'
    BY <2>1, <2>2, <2>4, Typing DEF IInv, Held, Locks
  <2>7. Locks'
    BY <2>1, <2>2, <2>4, Typing DEF IInv, Held, Locks, Creating
  <2>8. Creating'
    BY <2>1, <2>2, <2>4, Typing DEF IInv, Held, Locks, Creating, Updating
  <2>9. Updating' /\ Presenting'
    BY <2>1, <2>2, <2>4, Typing DEF IInv, Held, Updating, Presenting
  <2> QED
    BY <2>5, <2>6, <2>7, <2>8, <2>9 DEF IInv
<1>4. ASSUME NEW r \in Requests, Get(r), ~End(r) PROVE IInv'
  <2> DEFINE new == [req[r] EXCEPT !.pc = "update", !.read = row[req[r].id].version]
  <2>1. /\ req[r] \in Request /\ req[r].id \in Ids
        /\ req[r].pc = "get" /\ row[req[r].id].version = req[r].version
        /\ req[r].version \in 1..(MaxVersion - 1)
        /\ UNCHANGED <<row, outbox, lock, faults>>
    BY <1>4 DEF Get, IInv, TypeOK, Request, Presenting
  <2>2. /\ new \in Request
        /\ new.pc = "update" /\ new.id = req[r].id
        /\ new.version = req[r].version /\ new.read = req[r].version
    BY <2>1 DEF Request, IInv, TypeOK, Presenting
  <2>3. Continue(r, new)
    BY <1>4, <2>1 DEF Get
  <2> HIDE DEF new
  <2>4. /\ req' \in [Requests -> Request] /\ req'[r] = new
        /\ \A s \in Requests : s # r => req'[s] = req[s]
    BY <2>2, <2>3, Continuing
  <2>5. TypeOK'
    BY <2>1, <2>2, <2>4 DEF IInv, TypeOK
  <2>6. Held'
    BY <2>1, <2>2, <2>4, Typing DEF IInv, Held, Locks
  <2>7. Locks'
    BY <2>1, <2>2, <2>4, Typing DEF IInv, Held, Locks, Creating
  <2>8. Creating'
    BY <2>1, <2>2, <2>4, Typing DEF IInv, Held, Locks, Creating, Updating
  <2>9. Updating' /\ Presenting'
    BY <2>1, <2>2, <2>4, Typing DEF IInv, Held, Updating, Presenting
  <2> QED
    BY <2>5, <2>6, <2>7, <2>8, <2>9 DEF IInv
<1>5. ASSUME NEW r \in Requests, Update(r), ~End(r) PROVE IInv'
  <2> DEFINE new == [req[r] EXCEPT !.pc = "publish", !.write = row[req[r].id].version + 1]
  <2>1. /\ req[r] \in Request /\ req[r].id \in Ids
        /\ req[r].pc = "update" /\ lock[req[r].id] = Free
        /\ row[req[r].id].version = req[r].read
        /\ req[r].read \in 1..(MaxVersion - 1)
        /\ lock' \in [Ids -> Requests \cup {Free}]
        /\ \A i \in Ids : lock'[i] = IF i = req[r].id THEN r ELSE lock[i]
        /\ UNCHANGED <<row, outbox, faults>>
    BY <1>5, Typing DEF Update, IInv, TypeOK, Updating
  <2>2. /\ new \in Request
        /\ new.pc = "publish" /\ new.id = req[r].id
        /\ new.read = req[r].read /\ new.write = req[r].read + 1
    BY <2>1, VersionFacts DEF Request
  <2>3. Continue(r, new)
    BY <1>5, <2>1 DEF Update
  <2> HIDE DEF new
  <2>4. /\ req' \in [Requests -> Request] /\ req'[r] = new
        /\ \A s \in Requests : s # r => req'[s] = req[s]
    BY <2>2, <2>3, Continuing
  <2>5. TypeOK'
    BY <2>1, <2>2, <2>4 DEF IInv, TypeOK
  <2>6. Held'
    BY <2>1, <2>2, <2>4, Typing DEF IInv, Held, Locks
  <2>7. Locks'
    BY <2>1, <2>2, <2>4, Typing DEF IInv, Held, Locks, Creating
  <2>8. Creating'
    BY <2>1, <2>2, <2>4, Typing DEF IInv, Held, Locks, Creating, Updating
  <2>9. Updating' /\ Presenting'
    BY <2>1, <2>2, <2>4, Typing DEF IInv, Held, Updating, Presenting
  <2> QED
    BY <2>5, <2>6, <2>7, <2>8, <2>9 DEF IInv
<1>6. ASSUME NEW r \in Requests, Publish(r) PROVE IInv'
  <2> DEFINE new == [req[r] EXCEPT !.pc = "commit", !.event = req[r].read + 1]
  <2>1. /\ req[r] \in Request /\ req[r].id \in Ids
        /\ req[r].pc = "publish" /\ req[r].write = req[r].read + 1
        /\ UNCHANGED <<row, outbox, lock, faults>>
    BY <1>6 DEF Publish, IInv, TypeOK, Request, Held
  <2>2. /\ new \in Request
        /\ new.pc = "commit" /\ new.id = req[r].id /\ new.read = req[r].read
        /\ new.write = req[r].write /\ new.event = req[r].read + 1
    BY <2>1 DEF Request, IInv, TypeOK, Held
  <2>3. Continue(r, new)
    BY <1>6, <2>1 DEF Publish, EventVersion
  <2> HIDE DEF new
  <2>4. /\ req' \in [Requests -> Request] /\ req'[r] = new
        /\ \A s \in Requests : s # r => req'[s] = req[s]
    BY <2>2, <2>3, Continuing
  <2>5. TypeOK'
    BY <2>1, <2>2, <2>4 DEF IInv, TypeOK
  <2>6. Held'
    BY <2>1, <2>2, <2>4, Typing DEF IInv, Held, Locks
  <2>7. Locks'
    BY <2>1, <2>2, <2>4, Typing DEF IInv, Held, Locks, Creating
  <2>8. Creating'
    BY <2>1, <2>2, <2>4, Typing DEF IInv, Held, Locks, Creating, Updating
  <2>9. Updating' /\ Presenting'
    BY <2>1, <2>2, <2>4, Typing DEF IInv, Held, Updating, Presenting
  <2> QED
    BY <2>5, <2>6, <2>7, <2>8, <2>9 DEF IInv
<1>7. ASSUME NEW r \in Requests, Commit(r) PROVE IInv'
  <2>1. /\ req' \in [Requests -> Request] /\ req'[r].pc = "idle"
        /\ \A s \in Requests : s # r => req'[s] = req[s]
        /\ lock' \in [Ids -> Requests \cup {Free}]
        /\ \A i \in Ids : lock'[i] = IF lock[i] = r THEN Free ELSE lock[i]
    BY <1>7, Ending DEF Commit
  <2>2. /\ req[r].pc = "commit" /\ req[r].id \in Ids /\ req[r].body \in Bodies
        /\ req[r].event = req[r].write /\ req[r].write \in 1..MaxVersion
        /\ lock[req[r].id] = r
        /\ UNCHANGED faults
    <3>1. req[r].write \in Versions /\ req[r].read \in Versions
      BY Typing DEF Request
    <3> QED
      BY <1>7, <3>1, Typing, VersionFacts DEF Commit, IInv, Held
  <2> DEFINE new == [version |-> req[r].write, body |-> req[r].body]
  <2>0. /\ new \in [version : Versions, body : Bodies \cup {None}]
        /\ new.version = req[r].write
    BY <2>2, VersionFacts
  <2>3. row' = [row EXCEPT ![req[r].id] = new]
    BY <1>7 DEF Commit
  <2> HIDE DEF new
  <2>4. /\ row'[req[r].id].version = req[r].write
        /\ \A i \in Ids : i # req[r].id => row'[i] = row[i]
        /\ row' \in [Ids -> [version : Versions, body : Bodies \cup {None}]]
    BY <2>0, <2>2, <2>3 DEF IInv, TypeOK
  <2> DEFINE event == [note |-> req[r].id, version |-> req[r].event, body |-> req[r].body]
  <2>5. event \in [note : Ids, version : 1..MaxVersion, body : Bodies]
    BY <2>2
  <2>6. outbox' = Append(outbox, event)
    BY <1>7, <2>2 DEF Commit
  <2> HIDE DEF event
  <2>7. outbox' \in Seq([note : Ids, version : 1..MaxVersion, body : Bodies])
    BY <2>5, <2>6 DEF IInv, TypeOK
  <2>8. TypeOK'
    BY <2>1, <2>2, <2>4, <2>7 DEF IInv, TypeOK
  \* No other request is past its write, or about to create, the same note.
  <2>13. /\ \A s \in Requests : s # r /\ req[s].pc \in {"publish", "commit", "insert"} =>
              req[s].id # req[r].id
         /\ req[r].write > 0 /\ r # Free
    BY <2>2, Typing DEF IInv, Held, Creating
  <2>14. /\ \A s \in Requests : s # r => req'[s] = req[s]
         /\ \A s \in Requests : req[s].id \in Ids
         /\ row'[req[r].id].version > 0
         /\ \A i \in Ids : i # req[r].id => row'[i] = row[i]
    BY <2>1, <2>4, <2>13, Typing
  <2>9. Held'
    BY <2>1, <2>13, <2>14 DEF IInv, Held
  <2>10. Locks'
    BY <2>1, <2>2, <2>4, <2>7, Typing DEF IInv, Held, Locks, Creating
  <2>11. Creating'
    BY <2>1, <2>13, <2>14 DEF IInv, Creating
  <2>12. Updating' /\ Presenting'
    BY <2>1, <2>14 DEF IInv, Updating, Presenting
  <2> QED
    BY <2>8, <2>9, <2>10, <2>11, <2>12 DEF IInv
<1>8. ASSUME NEW r \in Requests, Rollback(r) PROVE IInv'
  BY <1>8, EndPreserves DEF Rollback, IInv, TypeOK
<1>9. ASSUME NEW r \in Requests, Get(r) \/ Update(r), End(r) PROVE IInv'
  BY <1>9, EndPreserves DEF Get, Update, IInv, TypeOK
<1>10. CASE UNCHANGED vars
  BY <1>10 DEF vars, IInv, TypeOK, Held, Locks, Creating, Updating, Presenting
<1> QED
  BY <1>1, <1>2, <1>3, <1>4, <1>5, <1>6, <1>7, <1>8, <1>9, <1>10 DEF Next

-----------------------------------------------------------------------------

\* What a commit does: one note goes to its next version, with the event that
\* says so.
LEMMA Committing ==
  ASSUME IInv, NEW r \in Requests, Commit(r)
  PROVE  \E n \in Ids, b \in Bodies :
           /\ row[n].version \in Nat
           /\ row' = [row EXCEPT ![n] = [version |-> row[n].version + 1, body |-> b]]
           /\ outbox' = Append(outbox, [note |-> n, version |-> row[n].version + 1,
                                        body |-> b])
<1>0. PICK n \in Ids, b \in Bodies : n = req[r].id /\ b = req[r].body
  BY Typing
<1>1. /\ req[r].read \in Nat /\ req[r].read = row[n].version
      /\ req[r].write = req[r].read + 1 /\ req[r].event = req[r].read + 1
  BY <1>0, Typing DEF Commit, IInv, Held
<1>2. row' = [row EXCEPT ![n] = [version |-> row[n].version + 1, body |-> b]]
  BY <1>0, <1>1 DEF Commit
<1>3. outbox' = Append(outbox, [note |-> n, version |-> row[n].version + 1, body |-> b])
  BY <1>0, <1>1 DEF Commit
<1> QED
  BY <1>1, <1>2, <1>3

\* Only a commit changes the store, and it changes it as one compare-and-set.
LEMMA StoreStep == IInv /\ [Next]_vars => [Store!Next]_(Store!vars)
<1> SUFFICES ASSUME IInv, [Next]_vars PROVE [Store!Next]_(Store!vars)
  OBVIOUS
<1>1. ASSUME UNCHANGED <<row, outbox>> PROVE UNCHANGED Store!vars
  BY <1>1 DEF Store!vars
<1>2. ASSUME NEW r \in Requests, Commit(r) PROVE Store!Next
  <2> DEFINE Version == [i \in Ids |-> row[i].version]
             Body == [i \in Ids |-> row[i].body]
  <2>1. PICK n \in Ids, b \in Bodies :
          /\ row[n].version \in Nat
          /\ row' = [row EXCEPT ![n] = [version |-> row[n].version + 1, body |-> b]]
          /\ outbox' = Append(outbox, [note |-> n, version |-> row[n].version + 1,
                                       body |-> b])
    BY <1>2, Committing
  <2>2. row \in [Ids -> [version : Versions, body : Bodies \cup {None}]]
    BY DEF IInv, TypeOK
  <2>4. Version' = [Version EXCEPT ![n] = row[n].version + 1]
    BY <2>1, <2>2
  <2>5. Body' = [Body EXCEPT ![n] = b]
    BY <2>1, <2>2
  <2>6. outbox' = Append(outbox, Store!Event(n, row[n].version + 1, b))
    BY <2>1 DEF Store!Event
  <2>7. Version[n] = row[n].version /\ row[n].version \in Nat
    BY <2>1
  <2>8. CASE row[n].version = 0
    <3>1. Store!Create(n, b)
      BY <2>4, <2>5, <2>6, <2>7, <2>8 DEF Store!Create
    <3> QED
      BY <2>1, <3>1 DEF Store!Next
  <2>9. CASE row[n].version # 0
    <3>1. Store!Update(n, row[n].version, b)
      BY <2>4, <2>5, <2>6, <2>7, <2>9 DEF Store!Update
    <3> QED
      BY <2>1, <2>7, <3>1 DEF Store!Next
  <2> QED
    BY <2>8, <2>9
<1>3. CASE UNCHANGED vars
  BY <1>1, <1>3 DEF vars
<1> QED
  BY <1>1, <1>2, <1>3
     DEF Next, CreateBegin, Insert, UpdateBegin, Get, Update, Publish, Rollback

\* The inductive invariant holds in every reachable state.
THEOREM Invariance == Spec => []IInv
  BY Initial, Inductive, PTL DEF Spec

\* CreateNote and UpdateNote keep rows, locks, requests and outbox well typed.
THEOREM TypeCorrect == Spec => []TypeOK
<1>1. IInv => TypeOK
  BY DEF IInv
<1> QED
  BY <1>1, Invariance, PTL

\* The transactions of CreateNote and UpdateNote implement a compare-and-set
\* on each note's version that logs its event in the same step.
THEOREM Implements == Spec => ImplementsStore
<1>1. Init => Store!Init
  BY DEF Init, Store!Init, None, Store!None
<1>2. IInv /\ [Next]_vars => [Store!Next]_(Store!vars)
  BY StoreStep
<1> QED
  BY <1>1, <1>2, Invariance, PTL DEF Spec, ImplementsStore, Store!Spec

\* One more event of a note keeps the events of every note in order.
LEMMA OneMoreEvent ==
  ASSUME IInv, EventsInOrder, NEW r \in Requests, Commit(r)
  PROVE  EventsInOrder'
<1>1. PICK n \in Ids, b \in Bodies :
        /\ row[n].version \in Nat
        /\ row' = [row EXCEPT ![n] = [version |-> row[n].version + 1, body |-> b]]
        /\ outbox' = Append(outbox, [note |-> n, version |-> row[n].version + 1,
                                     body |-> b])
  BY Committing
<1> DEFINE e == [note |-> n, version |-> row[n].version + 1, body |-> b]
           last == Len(outbox) + 1
<1>2. /\ Len(outbox) \in Nat /\ Len(outbox') = last
      /\ outbox'[last] = e /\ \A k \in 1..Len(outbox) : outbox'[k] = outbox[k]
  BY <1>1 DEF IInv, TypeOK
<1>3. e.note = n /\ e.version = row[n].version + 1 /\ e.body = b
  OBVIOUS
<1> HIDE DEF e
<1>4. ASSUME NEW i \in Ids
      PROVE  /\ i # n => row'[i] = row[i] /\ EventsOf(i)' = EventsOf(i)
             /\ i = n => /\ row'[i].version = row[i].version + 1 /\ row'[i].body = b
                         /\ EventsOf(i)' = EventsOf(i) \cup {last}
             /\ EventsOf(i) \subseteq 1..Len(outbox)
             /\ last \notin EventsOf(i)
  <2>1. row \in [Ids -> [version : Versions, body : Bodies \cup {None}]]
    BY DEF IInv, TypeOK
  <2>2. /\ i # n => row'[i] = row[i]
        /\ i = n => row'[i].version = row[i].version + 1 /\ row'[i].body = b
    BY <1>1, <2>1
  <2>3. 1..Len(outbox') = 1..Len(outbox) \cup {last} /\ last \notin 1..Len(outbox)
    BY <1>2
  <2>4. i # n => EventsOf(i)' = EventsOf(i)
    BY <1>2, <1>3, <2>3 DEF EventsOf
  <2>5. i = n => EventsOf(i)' = EventsOf(i) \cup {last}
    BY <1>2, <1>3, <2>3 DEF EventsOf
  <2> QED
    BY <2>2, <2>3, <2>4, <2>5 DEF EventsOf
<1>5. \A i \in Ids :
        /\ \A k, m \in EventsOf(i) : k < m => outbox[k].version < outbox[m].version
        /\ {outbox[k].version : k \in EventsOf(i)} = 1..row[i].version
        /\ \A k \in EventsOf(i) :
             outbox[k].version = row[i].version => outbox[k].body = row[i].body
  BY DEF EventsInOrder
<1> SUFFICES ASSUME NEW i \in Ids
             PROVE  /\ \A k, m \in EventsOf(i)' : k < m => outbox'[k].version < outbox'[m].version
                    /\ {outbox'[k].version : k \in EventsOf(i)'} = 1..row'[i].version
                    /\ \A k \in EventsOf(i)' :
                         outbox'[k].version = row'[i].version => outbox'[k].body = row'[i].body
  BY DEF EventsInOrder
<1>6. CASE i # n
  BY <1>2, <1>4, <1>5, <1>6
<1>7. CASE i = n
  <2> DEFINE v == row[n].version
  <2>1. \A k \in EventsOf(i) : outbox[k].version \in 1..v
    BY <1>5, <1>7
  <2>2. \A k \in EventsOf(i) : k \in 1..Len(outbox) /\ outbox'[k] = outbox[k]
    BY <1>2, <1>4
  <2>3. outbox'[last].version = v + 1 /\ outbox'[last].body = b /\ v \in Nat
    BY <1>1, <1>2, <1>3
  <2>4. EventsOf(i)' = EventsOf(i) \cup {last} /\ row'[i].version = v + 1 /\ row'[i].body = b
    BY <1>4, <1>7
  <2> HIDE DEF v
  <2>5. \A k, m \in EventsOf(i)' : k < m => outbox'[k].version < outbox'[m].version
    <3> SUFFICES ASSUME NEW k \in EventsOf(i)', NEW m \in EventsOf(i)', k < m
                 PROVE  outbox'[k].version < outbox'[m].version
      OBVIOUS
    <3>1. k \in EventsOf(i)
      BY <1>2, <2>2, <2>4
    <3>2. CASE m \in EventsOf(i)
      BY <1>5, <2>2, <3>1, <3>2
    <3>3. CASE m = last
      BY <2>1, <2>2, <2>3, <3>1, <3>3
    <3> QED
      BY <2>4, <3>2, <3>3
  <2>6. {outbox'[k].version : k \in EventsOf(i)'} = 1..(v + 1)
    <3>1. {outbox[k].version : k \in EventsOf(i)} = 1..v
      BY <1>5, <1>7 DEF v
    <3>2. 1..(v + 1) = 1..v \cup {v + 1}
      BY <2>3
    <3>3. {outbox'[k].version : k \in EventsOf(i)'}
            = {outbox[k].version : k \in EventsOf(i)} \cup {v + 1}
      BY <2>2, <2>3, <2>4
    <3> QED
      BY <3>1, <3>2, <3>3
  <2>7. \A k \in EventsOf(i)' : outbox'[k].version = v + 1 => outbox'[k].body = b
    BY <2>1, <2>2, <2>3, <2>4
  <2> QED
    BY <2>4, <2>5, <2>6, <2>7
<1> QED
  BY <1>6, <1>7

\* The outbox of CreateNote and UpdateNote: the events of a note count its
\* versions without gap, repetition or disorder, and the last one has the body
\* that is stored.
THEOREM EventsInOrderHolds == Spec => []EventsInOrder
<1>1. ASSUME Init PROVE EventsInOrder
  <2>0. Len(outbox) = 0 /\ \A i \in Ids : row[i].version = 0
    BY <1>1 DEF Init
  <2>e. 1..0 = {}
    OBVIOUS
  <2>1. \A i \in Ids : EventsOf(i) = {}
    BY <2>0, <2>e DEF EventsOf
  <2>2. \A i \in Ids : 1..row[i].version = {}
    BY <2>0, <2>e
  <2> QED
    BY <2>1, <2>2 DEF EventsInOrder
<1>2. ASSUME IInv, EventsInOrder, [Next]_vars PROVE EventsInOrder'
  <2>1. ASSUME NEW r \in Requests, Commit(r) PROVE EventsInOrder'
    BY <1>2, <2>1, OneMoreEvent
  <2>2. ASSUME UNCHANGED <<row, outbox>> PROVE EventsInOrder'
    BY <1>2, <2>2 DEF EventsInOrder, EventsOf
  <2> QED
    BY <1>2, <2>1, <2>2
       DEF Next, vars, CreateBegin, Insert, UpdateBegin, Get, Update, Publish, Rollback
<1>3. IInv /\ EventsInOrder /\ [Next]_vars => EventsInOrder'
  BY <1>2
<1> QED
  BY <1>1, <1>3, Invariance, PTL DEF Spec

-----------------------------------------------------------------------------
(* The read-through cache of ReadThroughCache *)

CacheTypes == /\ source \in Cache!Versions
              /\ over \in [Cache!Versions -> Nat]
              /\ l1 \in [Instances -> Cache!Entry(L1TTL)]
              /\ l2 \in Cache!Entry(L2TTL)
              /\ flight \in [Instances -> Cache!Flight]

\* A version that has not been replaced is not outdated.
NotOver == \A v \in Cache!Versions : v >= source => over[v] = 0

\* What is in L2 was loaded by a flight, and its lifetime runs.
L2Fresh == l2.left > 0 => over[l2.value] + l2.left <= MaxFlight + L2TTL

\* What a flight carries was loaded by it, or found in L2 by it.
FlightFresh == \A i \in Instances :
  /\ flight[i].pc \in {"store", "publish"} => over[flight[i].value] <= flight[i].age
  /\ flight[i].pc = "share" => over[flight[i].value] <= MaxFlight + L2TTL + flight[i].age

\* What is in L1 was brought by a flight, and its lifetime runs.
L1Fresh == \A i \in Instances :
  l1[i].left > 0 => over[l1[i].value] + l1[i].left <= 2 * MaxFlight + L2TTL + L1TTL

\* The inductive invariant.
CacheInv == CacheTypes /\ NotOver /\ L2Fresh /\ FlightFresh /\ L1Fresh

\* The inductive invariant holds initially.
LEMMA CacheInitial == Cache!Init => CacheInv
<1> SUFFICES ASSUME Cache!Init PROVE CacheInv
  OBVIOUS
<1> USE CacheAssumption
<1>1. /\ 1 \in Cache!Versions
      /\ Cache!Nothing \in Cache!Entry(L1TTL) /\ Cache!Nothing \in Cache!Entry(L2TTL)
      /\ Cache!Nothing.left = 0
      /\ Cache!NoFlight \in Cache!Flight /\ Cache!NoFlight.pc = "none"
  BY DEF Cache!Versions, Cache!Nothing, Cache!Entry, Cache!NoFlight, Cache!Flight
<1>2. CacheTypes
  BY <1>1 DEF CacheTypes, Cache!Init
<1> QED
  BY <1>1, <1>2 DEF CacheInv, NotOver, L2Fresh, FlightFresh, L1Fresh, Cache!Init

\* A flight that changes course carries something fresh; whatever it puts
\* into a tier is fresh there.
LEMMA FlightMoves ==
  ASSUME CacheInv, NEW i \in Instances, NEW new \in Cache!Flight,
         flight' = [flight EXCEPT ![i] = new],
         UNCHANGED <<source, over>>,
         new.pc \in {"store", "publish"} => over[new.value] <= new.age,
         new.pc = "share" => over[new.value] <= MaxFlight + L2TTL + new.age,
         \/ UNCHANGED l1
         \/ /\ l1' = [l1 EXCEPT ![i] = [value |-> flight[i].value, left |-> L1TTL]]
            /\ flight[i].pc \in {"share", "store"},
         \/ UNCHANGED l2
         \/ /\ l2' = [value |-> flight[i].value, left |-> L2TTL]
            /\ flight[i].pc = "publish"
  PROVE  CacheInv'
<1> USE CacheAssumption
<1>t. CacheTypes /\ NotOver /\ L2Fresh /\ FlightFresh /\ L1Fresh
  BY DEF CacheInv
<1>0. /\ flight[i].value \in Cache!Versions /\ flight[i].age \in Nat
      /\ flight[i].age <= MaxFlight /\ over[flight[i].value] \in Nat
  <2>1. flight[i] \in Cache!Flight
    BY <1>t DEF CacheTypes
  <2> QED
    BY <1>t, <2>1 DEF Cache!Flight, CacheTypes
<1>1. CacheTypes'
  <2>1. l1' \in [Instances -> Cache!Entry(L1TTL)]
    BY <1>t, <1>0 DEF CacheTypes, Cache!Entry
  <2>2. l2' \in Cache!Entry(L2TTL)
    BY <1>t, <1>0 DEF CacheTypes, Cache!Entry
  <2>3. flight' \in [Instances -> Cache!Flight]
    BY <1>t DEF CacheTypes
  <2> QED
    BY <1>t, <2>1, <2>2, <2>3 DEF CacheTypes
<1>2. NotOver'
  BY <1>t DEF NotOver
<1>3. FlightFresh'
  <2> SUFFICES ASSUME NEW j \in Instances
               PROVE  /\ flight'[j].pc \in {"store", "publish"} =>
                           over[flight'[j].value] <= flight'[j].age
                      /\ flight'[j].pc = "share" =>
                           over[flight'[j].value] <= MaxFlight + L2TTL + flight'[j].age
    BY DEF FlightFresh
  <2>1. flight'[j] = IF j = i THEN new ELSE flight[j]
    BY <1>t DEF CacheTypes
  <2> QED
    BY <1>t, <2>1 DEF FlightFresh
<1>4. L1Fresh'
  <2> SUFFICES ASSUME NEW j \in Instances, l1'[j].left > 0
               PROVE  over[l1'[j].value] + l1'[j].left <= 2 * MaxFlight + L2TTL + L1TTL
    BY DEF L1Fresh
  <2>1. CASE l1'[j] = l1[j]
    BY <1>t, <2>1 DEF L1Fresh
  <2>2. CASE l1'[j] # l1[j]
    <3>1. /\ j = i /\ l1'[j] = [value |-> flight[i].value, left |-> L1TTL]
          /\ flight[i].pc \in {"share", "store"}
      BY <1>t, <2>2 DEF CacheTypes
    <3>2. over[flight[i].value] <= MaxFlight + L2TTL + flight[i].age
      BY <1>t, <1>0, <3>1 DEF FlightFresh
    <3> QED
      BY <1>0, <3>1, <3>2
  <2> QED
    BY <2>1, <2>2
<1>5. L2Fresh'
  <2>1. CASE UNCHANGED l2
    BY <1>t, <2>1 DEF L2Fresh
  <2>2. CASE /\ l2' = [value |-> flight[i].value, left |-> L2TTL]
             /\ flight[i].pc = "publish"
    <3>1. over[flight[i].value] <= flight[i].age
      BY <1>t, <2>2 DEF FlightFresh
    <3> QED
      BY <1>0, <2>2, <3>1 DEF L2Fresh
  <2> QED
    BY <2>1, <2>2
<1> QED
  BY <1>1, <1>2, <1>3, <1>4, <1>5 DEF CacheInv

\* Time passes: what is outdated grows older by a tick at most, what is kept
\* has a tick less to live, what flies is a tick older.
LEMMA CacheTick == CacheInv /\ Cache!Tick => CacheInv'
<1> SUFFICES ASSUME CacheInv, Cache!Tick PROVE CacheInv'
  OBVIOUS
<1> USE CacheAssumption
<1>t. CacheTypes /\ NotOver /\ L2Fresh /\ FlightFresh /\ L1Fresh
  BY DEF CacheInv
<1>1. /\ source' = source /\ over' \in [Cache!Versions -> Nat]
      /\ \A v \in Cache!Versions : /\ over[v] \in Nat /\ over'[v] \in Nat
                                   /\ over'[v] <= over[v] + 1
                                   /\ v >= source => over'[v] = 0
  <2>1. Cache!Ever \in Int
    BY DEF Cache!Ever, Cache!MaxStale
  <2>2. source \in Int /\ \A v \in Cache!Versions : v \in Int /\ over[v] \in Nat
    BY <1>t DEF CacheTypes, Cache!Versions
  <2>3. over' = [v \in Cache!Versions |->
                   IF v < source /\ over[v] < Cache!Ever THEN over[v] + 1 ELSE over[v]]
    BY DEF Cache!Tick
  <2>4. \A v \in Cache!Versions : /\ over'[v] \in Nat
                                  /\ over'[v] <= over[v] + 1
                                  /\ v >= source => over'[v] = 0
    BY <1>t, <2>1, <2>2, <2>3 DEF NotOver
  <2>5. over' \in [Cache!Versions -> Nat]
    BY <2>3, <2>4
  <2> QED
    BY <2>2, <2>4, <2>5 DEF Cache!Tick
<1>2. ASSUME NEW ttl \in Nat, NEW e \in Cache!Entry(ttl)
      PROVE  /\ Cache!Less(e) \in Cache!Entry(ttl)
             /\ Cache!Less(e).value = e.value /\ e.value \in Cache!Versions
             /\ e.left \in Nat /\ Cache!Less(e).left \in Nat
             /\ Cache!Less(e).left > 0 => e.left = Cache!Less(e).left + 1
  BY DEF Cache!Entry, Cache!Less
<1>3. /\ l2' = Cache!Less(l2) /\ l2 \in Cache!Entry(L2TTL)
      /\ l1' = [i \in Instances |-> Cache!Less(l1[i])]
      /\ \A i \in Instances : l1[i] \in Cache!Entry(L1TTL) /\ l1'[i] = Cache!Less(l1[i])
  BY <1>t DEF CacheTypes, Cache!Tick
<1>4. L2Fresh'
  <2>1. /\ l2'.value = l2.value /\ l2.value \in Cache!Versions
        /\ l2.left \in Nat /\ l2'.left \in Nat
        /\ l2'.left > 0 => l2.left = l2'.left + 1
    BY <1>2, <1>3
  <2> QED
    BY <1>t, <1>1, <2>1 DEF L2Fresh
<1>5. L1Fresh'
  <2> SUFFICES ASSUME NEW i \in Instances, l1'[i].left > 0
               PROVE  over'[l1'[i].value] + l1'[i].left <= 2 * MaxFlight + L2TTL + L1TTL
    BY DEF L1Fresh
  <2>1. /\ l1'[i].value = l1[i].value /\ l1[i].value \in Cache!Versions
        /\ l1[i].left \in Nat /\ l1'[i].left \in Nat
        /\ l1[i].left = l1'[i].left + 1
    BY <1>2, <1>3
  <2>2. over[l1[i].value] + l1[i].left <= 2 * MaxFlight + L2TTL + L1TTL
    BY <1>t, <2>1 DEF L1Fresh
  <2>3. over'[l1[i].value] <= over[l1[i].value] + 1 /\ over[l1[i].value] \in Nat
        /\ over'[l1[i].value] \in Nat
    BY <1>1, <2>1
  <2> QED
    BY <2>1, <2>2, <2>3
<1>6. ASSUME NEW i \in Instances
      PROVE  /\ flight[i] \in Cache!Flight /\ flight'[i] \in Cache!Flight
             /\ flight'[i].pc = flight[i].pc /\ flight'[i].value = flight[i].value
             /\ flight[i].value \in Cache!Versions /\ flight[i].age \in Nat
             /\ flight[i].pc # "none" => flight'[i].age = flight[i].age + 1
  <2>1. flight[i] \in Cache!Flight
    BY <1>t DEF CacheTypes
  <2>2. flight'[i] = IF flight[i].pc = "none" THEN flight[i]
                     ELSE [flight[i] EXCEPT !.age = flight[i].age + 1]
    BY DEF Cache!Tick
  <2>3. flight[i].pc # "none" => flight[i].age < MaxFlight
    BY DEF Cache!Tick
  <2> DEFINE f == flight[i]
  <2>4. f \in Cache!Flight
    BY <2>1
  <2>5. flight'[i] = IF f.pc = "none" THEN f ELSE [f EXCEPT !.age = f.age + 1]
    BY <2>2
  <2>6. f.pc # "none" => f.age < MaxFlight
    BY <2>3
  <2> HIDE DEF f
  <2>7. /\ flight'[i] \in Cache!Flight
        /\ flight'[i].pc = f.pc /\ flight'[i].value = f.value
        /\ f.value \in Cache!Versions /\ f.age \in Nat
        /\ f.pc # "none" => flight'[i].age = f.age + 1
    BY <2>4, <2>5, <2>6 DEF Cache!Flight
  <2> QED
    BY <2>1, <2>7 DEF f
<1>7. FlightFresh'
  <2> SUFFICES ASSUME NEW i \in Instances
               PROVE  /\ flight'[i].pc \in {"store", "publish"} =>
                           over'[flight'[i].value] <= flight'[i].age
                      /\ flight'[i].pc = "share" =>
                           over'[flight'[i].value] <= MaxFlight + L2TTL + flight'[i].age
    BY DEF FlightFresh
  <2>1. /\ over'[flight[i].value] <= over[flight[i].value] + 1
        /\ over[flight[i].value] \in Nat /\ over'[flight[i].value] \in Nat
    BY <1>1, <1>6
  <2>2. /\ flight[i].pc \in {"store", "publish"} => over[flight[i].value] <= flight[i].age
        /\ flight[i].pc = "share" => over[flight[i].value] <= MaxFlight + L2TTL + flight[i].age
    BY <1>t DEF FlightFresh
  <2> QED
    BY <1>6, <2>1, <2>2
<1>8. CacheTypes'
  <2>1. l1' \in [Instances -> Cache!Entry(L1TTL)]
    BY <1>2, <1>3
  <2>2. l2' \in Cache!Entry(L2TTL)
    BY <1>2, <1>3
  <2>3. flight' \in [Instances -> Cache!Flight]
    <3>1. flight' = [i \in Instances |-> IF flight[i].pc = "none" THEN flight[i]
                                         ELSE [flight[i] EXCEPT !.age = @ + 1]]
      BY DEF Cache!Tick
    <3> QED
      BY <1>6, <3>1
  <2> QED
    BY <1>t, <1>1, <2>1, <2>2, <2>3 DEF CacheTypes
<1>9. NotOver'
  BY <1>1 DEF NotOver
<1> QED
  BY <1>4, <1>5, <1>7, <1>8, <1>9 DEF CacheInv

\* Every step of a caller, a flight, a writer, Invalidate, every tick and
\* every stutter preserve the inductive invariant.
LEMMA CacheInductive == CacheInv /\ [Cache!Next]_Cache!vars => CacheInv'
<1> SUFFICES ASSUME CacheInv, [Cache!Next]_Cache!vars PROVE CacheInv'
  OBVIOUS
<1> USE CacheAssumption
<1>t. CacheTypes /\ NotOver /\ L2Fresh /\ FlightFresh /\ L1Fresh
  BY DEF CacheInv
<1>n. Cache!NoFlight \in Cache!Flight /\ Cache!NoFlight.pc = "none"
  BY DEF Cache!NoFlight, Cache!Flight, Cache!Versions
<1>f. ASSUME NEW i \in Instances
      PROVE  /\ flight[i] \in Cache!Flight
             /\ flight[i].value \in Cache!Versions /\ flight[i].age \in Nat
             /\ \A pc \in {"load", "publish"} :
                  /\ [flight[i] EXCEPT !.pc = pc] \in Cache!Flight
                  /\ [flight[i] EXCEPT !.pc = pc].pc = pc
                  /\ [flight[i] EXCEPT !.pc = pc].value = flight[i].value
                  /\ [flight[i] EXCEPT !.pc = pc].age = flight[i].age
             /\ \A pc \in {"share", "store"}, v \in Cache!Versions :
                  /\ [flight[i] EXCEPT !.pc = pc, !.value = v] \in Cache!Flight
                  /\ [flight[i] EXCEPT !.pc = pc, !.value = v].pc = pc
                  /\ [flight[i] EXCEPT !.pc = pc, !.value = v].value = v
                  /\ [flight[i] EXCEPT !.pc = pc, !.value = v].age = flight[i].age
  <2> DEFINE f == flight[i]
  <2>1. f \in Cache!Flight
    BY <1>t DEF CacheTypes
  <2> HIDE DEF f
  <2>2. f.value \in Cache!Versions /\ f.age \in Nat
    BY <2>1 DEF Cache!Flight
  <2>3. ASSUME NEW pc \in {"load", "publish"}
        PROVE  /\ [f EXCEPT !.pc = pc] \in Cache!Flight
               /\ [f EXCEPT !.pc = pc].pc = pc
               /\ [f EXCEPT !.pc = pc].value = f.value
               /\ [f EXCEPT !.pc = pc].age = f.age
    BY <2>1 DEF Cache!Flight
  <2>4. ASSUME NEW pc \in {"share", "store"}, NEW v \in Cache!Versions
        PROVE  /\ [f EXCEPT !.pc = pc, !.value = v] \in Cache!Flight
               /\ [f EXCEPT !.pc = pc, !.value = v].pc = pc
               /\ [f EXCEPT !.pc = pc, !.value = v].value = v
               /\ [f EXCEPT !.pc = pc, !.value = v].age = f.age
    BY <2>1 DEF Cache!Flight
  <2> QED
    BY <2>1, <2>2, <2>3, <2>4 DEF f
<1>1. ASSUME NEW c \in Callers, NEW i \in Instances, Cache!Miss(c, i) PROVE CacheInv'
  BY <1>1 DEF Cache!Miss, CacheInv, CacheTypes, NotOver, L2Fresh, FlightFresh, L1Fresh
<1>2. ASSUME NEW c \in Callers, Cache!Do(c) PROVE CacheInv'
  <2> DEFINE i == caller[c].at
             new == [Cache!NoFlight EXCEPT !.pc = "l2"]
  <2>1. UNCHANGED <<source, over, l1, l2>>
    BY <1>2 DEF Cache!Do
  <2>2. new \in Cache!Flight /\ new.pc = "l2"
    BY DEF Cache!NoFlight, Cache!Flight, Cache!Versions
  <2>3. flight' = flight \/ flight' = [flight EXCEPT ![i] = new]
    BY <1>2 DEF Cache!Do
  <2> HIDE DEF new, i
  <2>4. CASE flight' = flight
    BY <2>1, <2>4 DEF CacheInv, CacheTypes, NotOver, L2Fresh, FlightFresh, L1Fresh
  <2>5. CASE flight' = [flight EXCEPT ![i] = new] /\ i \in Instances
    BY <2>1, <2>2, <2>5, FlightMoves
  <2>6. CASE flight' = [flight EXCEPT ![i] = new] /\ i \notin Instances
    <3>1. flight' = flight
      BY <1>t, <2>6 DEF CacheTypes
    <3> QED
      BY <2>1, <3>1 DEF CacheInv, CacheTypes, NotOver, L2Fresh, FlightFresh, L1Fresh
  <2> QED
    BY <2>3, <2>4, <2>5, <2>6
<1>3. ASSUME NEW i \in Instances, Cache!FromL2Hit(i) PROVE CacheInv'
  <2> DEFINE found == l2.value
             new == [flight[i] EXCEPT !.pc = "share", !.value = found]
  <2>1. /\ l2.left > 0 /\ flight' = [flight EXCEPT ![i] = new]
        /\ UNCHANGED <<source, over, l1, l2>>
    BY <1>3 DEF Cache!FromL2Hit
  <2>2. l2.value \in Cache!Versions /\ l2.left \in Nat /\ over[l2.value] \in Nat
    <3>1. l2 \in Cache!Entry(L2TTL)
      BY <1>t DEF CacheTypes
    <3> QED
      BY <1>t, <3>1 DEF CacheTypes, Cache!Entry
  <2>a. found \in Cache!Versions
    BY <2>2
  <2> HIDE DEF found
  <2>3. /\ new \in Cache!Flight /\ new.pc = "share" /\ new.value = found
        /\ new.age = flight[i].age /\ flight[i].age \in Nat
    BY <1>f, <2>a
  <2> HIDE DEF new
  <2>4. over[new.value] <= MaxFlight + L2TTL + new.age
    BY <1>t, <2>1, <2>2, <2>3 DEF L2Fresh, found
  <2> QED
    BY <2>1, <2>3, <2>4, FlightMoves
<1>4. ASSUME NEW i \in Instances, Cache!FromL2Miss(i) PROVE CacheInv'
  <2> DEFINE new == [flight[i] EXCEPT !.pc = "load"]
  <2>1. flight' = [flight EXCEPT ![i] = new] /\ UNCHANGED <<source, over, l1, l2>>
    BY <1>4 DEF Cache!FromL2Miss, Cache!Fly
  <2>2. new \in Cache!Flight /\ new.pc = "load"
    BY <1>f
  <2> HIDE DEF new
  <2> QED
    BY <2>1, <2>2, FlightMoves
<1>5. ASSUME NEW i \in Instances, Cache!Load(i) PROVE CacheInv'
  <2> DEFINE new == [flight[i] EXCEPT !.pc = "store", !.value = source]
  <2>1. flight' = [flight EXCEPT ![i] = new] /\ UNCHANGED <<source, over, l1, l2>>
    BY <1>5 DEF Cache!Load
  <2>2. source \in Cache!Versions /\ source \in Int
    BY <1>t DEF CacheTypes, Cache!Versions
  <2>3. /\ new \in Cache!Flight /\ new.pc = "store" /\ new.value = source
        /\ new.age \in Nat
    BY <1>f, <2>2
  <2> HIDE DEF new
  <2>4. over[new.value] <= new.age
    BY <1>t, <2>2, <2>3 DEF NotOver
  <2> QED
    BY <2>1, <2>3, <2>4, FlightMoves
<1>6. ASSUME NEW i \in Instances, Cache!LoadFails(i) PROVE CacheInv'
  <2>1. flight' = [flight EXCEPT ![i] = Cache!NoFlight] /\ UNCHANGED <<source, over, l1, l2>>
    BY <1>6 DEF Cache!LoadFails, Cache!Land
  <2> QED
    BY <1>n, <2>1, FlightMoves
<1>7. ASSUME NEW i \in Instances, Cache!Share(i) PROVE CacheInv'
  <2>1. /\ flight' = [flight EXCEPT ![i] = Cache!NoFlight] /\ UNCHANGED <<source, over, l2>>
        /\ flight[i].pc = "share"
        /\ \/ UNCHANGED l1
           \/ l1' = [l1 EXCEPT ![i] = [value |-> flight[i].value, left |-> L1TTL]]
    BY <1>7 DEF Cache!Share, Cache!Land, Cache!SetL1
  <2> QED
    BY <1>n, <2>1, FlightMoves
<1>8. ASSUME NEW i \in Instances, Cache!Store(i) PROVE CacheInv'
  <2> DEFINE new == [flight[i] EXCEPT !.pc = "publish"]
  <2>1. /\ flight' = [flight EXCEPT ![i] = new] /\ UNCHANGED <<source, over, l2>>
        /\ flight[i].pc = "store"
        /\ \/ UNCHANGED l1
           \/ l1' = [l1 EXCEPT ![i] = [value |-> flight[i].value, left |-> L1TTL]]
    BY <1>8 DEF Cache!Store, Cache!Fly, Cache!SetL1
  <2>2. /\ new \in Cache!Flight /\ new.pc = "publish" /\ new.value = flight[i].value
        /\ new.age = flight[i].age
    BY <1>f
  <2> HIDE DEF new
  <2>3. over[new.value] <= new.age
    BY <1>t, <2>1, <2>2 DEF FlightFresh
  <2> QED
    BY <2>1, <2>2, <2>3, FlightMoves
<1>9. ASSUME NEW i \in Instances, Cache!ToL2(i) PROVE CacheInv'
  <2>1. /\ flight' = [flight EXCEPT ![i] = Cache!NoFlight] /\ UNCHANGED <<source, over, l1>>
        /\ flight[i].pc = "publish"
        /\ \/ UNCHANGED l2
           \/ l2' = [value |-> flight[i].value, left |-> L2TTL]
    BY <1>9 DEF Cache!ToL2, Cache!Land
  <2> QED
    BY <1>n, <2>1, FlightMoves
<1>10. ASSUME NEW i \in Instances, Cache!InvalidateL1(i) PROVE CacheInv'
  <2>1. l1' = [l1 EXCEPT ![i] = Cache!Nothing] /\ UNCHANGED <<source, over, l2, flight>>
    BY <1>10 DEF Cache!InvalidateL1
  <2>2. Cache!Nothing \in Cache!Entry(L1TTL) /\ Cache!Nothing.left = 0
    BY DEF Cache!Nothing, Cache!Entry, Cache!Versions
  <2>3. l1' \in [Instances -> Cache!Entry(L1TTL)]
    BY <1>t, <2>1, <2>2 DEF CacheTypes
  <2>4. \A j \in Instances : l1'[j] = l1[j] \/ l1'[j].left = 0
    BY <1>t, <2>1, <2>2 DEF CacheTypes
  <2>5. L1Fresh'
    BY <1>t, <2>1, <2>4 DEF L1Fresh
  <2> QED
    BY <1>t, <2>1, <2>3, <2>5 DEF CacheInv, CacheTypes, NotOver, L2Fresh, FlightFresh
<1>11. ASSUME NEW i \in Instances, Cache!InvalidateL2(i) PROVE CacheInv'
  <2>1. (l2' = Cache!Nothing \/ l2' = l2) /\ UNCHANGED <<source, over, l1, flight>>
    BY <1>11 DEF Cache!InvalidateL2
  <2>2. Cache!Nothing \in Cache!Entry(L2TTL) /\ Cache!Nothing.left = 0
    BY DEF Cache!Nothing, Cache!Entry, Cache!Versions
  <2> QED
    BY <1>t, <2>1, <2>2 DEF CacheInv, CacheTypes, NotOver, L2Fresh, FlightFresh, L1Fresh
<1>12. CASE Cache!Write
  <2>1. source' = source + 1 /\ source <= MaxWrites /\ UNCHANGED <<over, l1, l2, flight>>
    BY <1>12 DEF Cache!Write
  <2>2. source' \in Cache!Versions /\ \A v \in Cache!Versions : v >= source' => v >= source
    BY <1>t, <2>1 DEF CacheTypes, Cache!Versions
  <2> QED
    BY <1>t, <2>1, <2>2 DEF CacheInv, CacheTypes, NotOver, L2Fresh, FlightFresh, L1Fresh
<1>13. CASE Cache!Tick
  BY <1>13, CacheTick
<1>14. CASE UNCHANGED Cache!vars
  BY <1>14 DEF Cache!vars, CacheInv, CacheTypes, NotOver, L2Fresh, FlightFresh, L1Fresh
<1> QED
  BY <1>1, <1>2, <1>3, <1>4, <1>5, <1>6, <1>7, <1>8, <1>9, <1>10, <1>11, <1>12, <1>13, <1>14
     DEF Cache!Next

\* The lifetimes of Options: whatever races, fails or is never invalidated, no
\* tier answers with a value replaced longer ago than both lifetimes and two
\* flights.
THEOREM CacheStaleBoundedHolds == Cache!Spec => []CacheStaleBounded
<1>1. ASSUME CacheInv PROVE CacheStaleBounded
  <2> USE CacheAssumption
  <2>t. CacheTypes /\ FlightFresh /\ L1Fresh
    BY <1>1 DEF CacheInv
  <2> SUFFICES ASSUME NEW i \in Instances
               PROVE  /\ l1[i].left > 0 => over[l1[i].value] <= L1TTL + L2TTL + 2 * MaxFlight
                      /\ flight[i].pc \in {"share", "store", "publish"} =>
                           over[flight[i].value] <= L2TTL + 2 * MaxFlight
    BY DEF CacheStaleBounded, Cache!StaleBounded, Cache!MaxStale
  <2>1. l1[i].value \in Cache!Versions /\ l1[i].left \in Nat
    <3>1. l1[i] \in Cache!Entry(L1TTL)
      BY <2>t DEF CacheTypes
    <3> QED
      BY <3>1 DEF Cache!Entry
  <2>2. flight[i].value \in Cache!Versions /\ flight[i].age \in Nat /\ flight[i].age <= MaxFlight
    <3>1. flight[i] \in Cache!Flight
      BY <2>t DEF CacheTypes
    <3> QED
      BY <3>1 DEF Cache!Flight
  <2>3. over[l1[i].value] \in Nat /\ over[flight[i].value] \in Nat
    BY <2>t, <2>1, <2>2 DEF CacheTypes
  <2>4. l1[i].left > 0 => over[l1[i].value] <= L1TTL + L2TTL + 2 * MaxFlight
    <3>1. l1[i].left > 0 => over[l1[i].value] + l1[i].left <= 2 * MaxFlight + L2TTL + L1TTL
      BY <2>t DEF L1Fresh
    <3> QED
      BY <2>1, <2>3, <3>1
  <2>5. flight[i].pc \in {"share", "store", "publish"} =>
           over[flight[i].value] <= L2TTL + 2 * MaxFlight
    <3>1. /\ flight[i].pc \in {"store", "publish"} => over[flight[i].value] <= flight[i].age
          /\ flight[i].pc = "share" => over[flight[i].value] <= MaxFlight + L2TTL + flight[i].age
      BY <2>t DEF FlightFresh
    <3> QED
      BY <2>2, <2>3, <3>1
  <2> QED
    BY <2>4, <2>5
<1>2. CacheInv => CacheStaleBounded
  BY <1>1
<1> QED
  BY <1>2, CacheInitial, CacheInductive, PTL DEF Cache!Spec
=============================================================================
