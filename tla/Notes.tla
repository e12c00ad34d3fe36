------------------------------- MODULE Notes -------------------------------
(***************************************************************************)
(* The example module: CreateNote and UpdateNote on PostgreSQL, each in    *)
(* one READ COMMITTED transaction that also writes the outbox.  GetNote    *)
(* and ListNotes change nothing.                                           *)
(*                                                                         *)
(* A caller may present any version, one it read long ago from a replica   *)
(* included.                                                               *)
(***************************************************************************)
EXTENDS Naturals, Sequences

CONSTANTS Ids, Bodies, Requests,
          MaxVersion,  \* bound on a note's version
          MaxFaults    \* bound on failed statements and commits

VARIABLES
  row,     \* committed example.notes
  outbox,  \* committed example.outbox
  lock,    \* the request that holds each note's row lock
  req,     \* the request each goroutine serves
  faults

vars == <<row, outbox, lock, req, faults>>

None == "none"
Free == "free"

ASSUME NotesAssumption == /\ MaxVersion \in Nat \ {0} /\ MaxFaults \in Nat
                          /\ Free \notin Requests

Versions == 0..MaxVersion

\* The input of a request, and what its transaction has done so far: read is
\* the version Get returned, write and event are uncommitted.
Request == [pc : {"idle", "insert", "get", "update", "publish", "commit"},
            id : Ids, body : Bodies, version : Versions,
            read : Versions, write : Versions, event : Versions]

TypeOK == /\ row \in [Ids -> [version : Versions, body : Bodies \cup {None}]]
          /\ outbox \in Seq([note : Ids, version : 1..MaxVersion, body : Bodies])
          /\ lock \in [Ids -> Requests \cup {Free}]
          /\ req \in [Requests -> Request]
          /\ faults \in 0..MaxFaults

Init == /\ row = [i \in Ids |-> [version |-> 0, body |-> None]]
        /\ outbox = <<>>
        /\ lock = [i \in Ids |-> Free]
        /\ req \in [Requests -> [pc : {"idle"}, id : Ids, body : Bodies, version : {0},
                                 read : {0}, write : {0}, event : {0}]]
        /\ faults = 0

Continue(r, new) == req' = [req EXCEPT ![r] = new]

\* The transaction ends: its locks go and its request is over.
End(r) == /\ lock' = [i \in Ids |-> IF lock[i] = r THEN Free ELSE lock[i]]
          /\ Continue(r, [req[r] EXCEPT !.pc = "idle", !.version = 0, !.read = 0,
                                        !.write = 0, !.event = 0])

-----------------------------------------------------------------------------

\* CreateNote: a fresh id, then the transaction.
CreateBegin(r, i, b) ==
  /\ req[r].pc = "idle" /\ row[i].version = 0
  /\ \A other \in Requests : req[other].pc # "idle" => req[other].id # i
  /\ Continue(r, [pc |-> "insert", id |-> i, body |-> b, version |-> 0,
                  read |-> 0, write |-> 0, event |-> 0])
  /\ UNCHANGED <<row, outbox, lock, faults>>

\* NoteRepository.Create: version 1, and the NoteCreated of NewNote.
Insert(r) ==
  /\ req[r].pc = "insert"
  /\ lock' = [lock EXCEPT ![req[r].id] = r]
  /\ Continue(r, [req[r] EXCEPT !.pc = "publish", !.write = 1])
  /\ UNCHANGED <<row, outbox, faults>>

\* UpdateNote, for a principal the policies allow.
UpdateBegin(r, i, b, v) ==
  /\ req[r].pc = "idle" /\ v \in 1..(MaxVersion - 1)
  /\ Continue(r, [pc |-> "get", id |-> i, body |-> b, version |-> v,
                  read |-> 0, write |-> 0, event |-> 0])
  /\ UNCHANGED <<row, outbox, lock, faults>>

\* Get in the transaction; no such note, or another version than the caller's,
\* ends the request.
Get(r) ==
  /\ req[r].pc = "get"
  /\ LET found == row[req[r].id].version IN
     \/ /\ found > 0 /\ found = req[r].version
        /\ Continue(r, [req[r] EXCEPT !.pc = "update", !.read = found])
        /\ UNCHANGED lock
     \/ (found = 0 \/ found # req[r].version) /\ End(r)
  /\ UNCHANGED <<row, outbox, faults>>

\* Mutant: the UPDATE trusts the version that was just read.
UpdateUnguarded(r) ==
  /\ req[r].pc = "update" /\ lock[req[r].id] = Free
  /\ row[req[r].id].version < MaxVersion
  /\ lock' = [lock EXCEPT ![req[r].id] = r]
  /\ Continue(r, [req[r] EXCEPT !.pc = "publish", !.write = row[req[r].id].version + 1])
  /\ UNCHANGED <<row, outbox, faults>>

\* The guarded UPDATE waits for the row lock and then looks at the committed
\* row: another version means no row affected, and a conflict.
Update(r) ==
  /\ req[r].pc = "update" /\ lock[req[r].id] = Free
  /\ \/ /\ row[req[r].id].version = req[r].read
        /\ lock' = [lock EXCEPT ![req[r].id] = r]
        /\ Continue(r, [req[r] EXCEPT !.pc = "publish",
                                      !.write = row[req[r].id].version + 1])
     \/ row[req[r].id].version # req[r].read /\ End(r)
  /\ UNCHANGED <<row, outbox, faults>>

\* The version the aggregate's event is about: NoteUpdated names the one read
\* plus one, NoteCreated is the first.
EventVersion(r) == req[r].read + 1

\* Mutant: the outbox row is written on the pool, outside the transaction.
PublishOutsideTx(r) ==
  /\ req[r].pc = "publish"
  /\ outbox' = Append(outbox, [note |-> req[r].id, version |-> EventVersion(r),
                               body |-> req[r].body])
  /\ Continue(r, [req[r] EXCEPT !.pc = "commit"])
  /\ UNCHANGED <<row, lock, faults>>

\* OutboxPublisher.Publish of the aggregate's event.
Publish(r) ==
  /\ req[r].pc = "publish"
  /\ Continue(r, [req[r] EXCEPT !.pc = "commit", !.event = EventVersion(r)])
  /\ UNCHANGED <<row, outbox, lock, faults>>

Commit(r) ==
  /\ req[r].pc = "commit"
  /\ row' = [row EXCEPT ![req[r].id] = [version |-> req[r].write, body |-> req[r].body]]
  /\ outbox' = IF req[r].event = 0 THEN outbox
               ELSE Append(outbox, [note |-> req[r].id, version |-> req[r].event,
                                    body |-> req[r].body])
  /\ End(r)
  /\ UNCHANGED faults

\* Any statement, or the commit, fails or panics: rollback.
Rollback(r) ==
  /\ req[r].pc # "idle" /\ faults < MaxFaults
  /\ faults' = faults + 1
  /\ End(r)
  /\ UNCHANGED <<row, outbox>>

Next == \E r \in Requests :
          \/ Insert(r) \/ Get(r) \/ Update(r) \/ Publish(r) \/ Commit(r) \/ Rollback(r)
          \/ \E i \in Ids, b \in Bodies :
               CreateBegin(r, i, b) \/ \E v \in 1..MaxVersion : UpdateBegin(r, i, b, v)

Spec == Init /\ [][Next]_vars

-----------------------------------------------------------------------------

\* The committed rows and events, as a store of notes.
Store == INSTANCE NoteStore
           WITH Notes <- Ids,
                version <- [i \in Ids |-> row[i].version],
                body <- [i \in Ids |-> row[i].body],
                log <- outbox

\* Concurrent transactions behave like a compare-and-set on each note's
\* version that records its event in the same step: no update is lost, no event
\* is recorded without its change or twice, whatever fails in between.
ImplementsStore == Store!Spec

\* Where the outbox has the events of a note.
EventsOf(i) == {k \in 1..Len(outbox) : outbox[k].note = i}

\* The events of a note, in commit order, count its versions: a consumer that
\* applies them in that order never goes back, skips nothing, and ends with
\* the stored note.
EventsInOrder ==
  \A i \in Ids :
    /\ \A k, m \in EventsOf(i) : k < m => outbox[k].version < outbox[m].version
    /\ {outbox[k].version : k \in EventsOf(i)} = 1..row[i].version
    /\ \A k \in EventsOf(i) :
         outbox[k].version = row[i].version => outbox[k].body = row[i].body
=============================================================================
