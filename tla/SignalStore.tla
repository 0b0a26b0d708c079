----------------------------- MODULE SignalStore -----------------------------
(***************************************************************************)
(* The storage of the signal server: SyncToStorage, which Run calls on     *)
(* every tick, SyncFromStorage, which NewSignalServer calls, and the       *)
(* helpers WriteFile and ReadFile.                                         *)
(*                                                                         *)
(* The server's goroutine does nothing else while it saves, but the        *)
(* process can end at any point: WriteFile first truncates the file and    *)
(* then writes it.  Who is online is left out (SignalServer): any          *)
(* registered peer may be.                                                 *)
(***************************************************************************)
EXTENDS SignalDatabase, Integers, FiniteSets

CONSTANT MaxSize  \* kMaxDBSize, in peers and services

ASSUME SizeAssumption == MaxSize \in Nat

VARIABLES db,      \* SignalServer.db, empty while the process is down
          file,    \* kDefaultDBFile: either a whole encoding of data, or none
                   \* (no file, an empty one, a part of an encoding)
          process  \* in its select, between truncate and write, or down

vars == <<db, file, process>>

Files == [whole : BOOLEAN, data : Databases]
NoContents == [whole |-> FALSE, data |-> EmptyDatabase]
Encoded(d) == [whole |-> TRUE, data |-> d]

TypeOK == /\ db \in Databases
          /\ file \in Files
          /\ process \in {"running", "writing", "down"}

Size(d) == Cardinality(d.peers) + Cardinality({n \in Names : ServiceExists(d, n)})

Init == db = EmptyDatabase /\ file = NoContents /\ process = "running"

-----------------------------------------------------------------------------
(* A request changes the database: the handlers of SignalServer.           *)

Handle ==
  /\ process = "running"
  /\ \E i \in Ids :
       \/ i \notin db.peers /\ db' = AddPeer(db, i)
       \/ /\ i \in db.peers
          /\ \E n \in Names :
               \/ ~ServiceExists(db, n) /\ db' = AddService(db, n, i)
               \/ /\ db.owner[n] = i
                  /\ \/ db' = RemoveServiceOf(db, n)
                     \/ \E flag \in BOOLEAN : db' = SetEnabled(db, n, flag)
               \/ /\ ServiceExists(db, n)
                  /\ db.owner[n] # i
                  /\ db' = Join(db, i, n) \/ db' = Leave(db, i, n)
               \/ /\ ServiceExists(db, n)
                  /\ \E on \in BOOLEAN : db' = Refresh(db, n, on)
  /\ UNCHANGED <<file, process>>

-----------------------------------------------------------------------------
(* Saving. *)

\* os.Create empties the file.  If it fails the tick changes nothing.
Truncate == /\ process = "running"
            /\ file' = NoContents
            /\ process' = "writing"
            /\ UNCHANGED db

Write == /\ process = "writing"
         /\ file' = Encoded(db)
         /\ process' = "running"
         /\ UNCHANGED db

\* The error is logged; what was written, if anything, is no whole encoding.
WriteFails == /\ process = "writing"
              /\ process' = "running"
              /\ UNCHANGED <<db, file>>

-----------------------------------------------------------------------------
(* Ending and starting. *)

\* Also between truncate and write.
Crash == /\ process # "down"
         /\ process' = "down"
         /\ db' = EmptyDatabase
         /\ UNCHANGED file

\* ReadFile reads at most kMaxDBSize bytes, and the decoder stores nothing of
\* an encoding that is cut off.
Loaded(f) == IF f.whole /\ Size(f.data) <= MaxSize THEN f.data ELSE EmptyDatabase

\* Faulty: NewSignalServer does not read the storage.
RestartEmpty == /\ process = "down"
                /\ process' = "running"
                /\ UNCHANGED <<db, file>>

Restart == /\ process = "down"
           /\ process' = "running"
           /\ db' = Loaded(file)
           /\ UNCHANGED file

Next == Handle \/ Truncate \/ Write \/ WriteFails \/ Crash \/ Restart

Spec == Init /\ [][Next]_vars

-----------------------------------------------------------------------------
(* Properties. *)

\* The database is consistent in memory and in the file, through any crashes
\* and restarts.
StoreConsistent == Consistent(db) /\ Consistent(file.data)

\* Memory and file are a lossy checkpoint: a restart finds the last save or
\* nothing, never a part of it or an older one.
CheckpointView ==
  INSTANCE Checkpoint WITH
    Nothing <- EmptyDatabase, memory <- db, disk <- Loaded(file), up <- process # "down"

ImplementsCheckpoint == CheckpointView!Spec

=============================================================================
