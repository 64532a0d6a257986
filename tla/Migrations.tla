------------------------------ MODULE Migrations ------------------------------
(***************************************************************************)
(* runMigrations: every run of the migrate command takes the session's     *)
(* advisory lock, reads the ledger once, and applies each file that is new *)
(* in a transaction of its own.  Runs overlap, carry the files of          *)
(* different releases, and die; a dead session loses its lock and its open *)
(* transaction.                                                            *)
(***************************************************************************)
EXTENDS Naturals, Sequences

CONSTANTS
  Runs,      \* processes that run the command, over and over
  Files,     \* the number of file names, in lexical order
  Contents,  \* what a file may contain
  Releases   \* what a run may find: the content of each file of a release

Nil == "nil"

MigrationsAssumption ==
  /\ Files \in Nat
  /\ Nil \notin Contents \cup Runs
  /\ \A files \in Releases :
       DOMAIN files \subseteq 1..Files /\ \A n \in DOMAIN files : files[n] \in Contents

VARIABLES
  ledger,   \* platform.schema_migrations: content (checksum) of a version
  history,  \* the files whose execution was committed, in order
  lock,     \* the run whose session has the advisory lock
  run       \* where each run is

vars == <<ledger, history, lock, run>>

-----------------------------------------------------------------------------

Idle == [pc |-> "idle"]

\* known: appliedChecksums; at: the number of the file last looked at.
Running ==
  [pc: {"lock", "read", "next", "execute", "commit"}, files: Releases,
   known: [1..Files -> Contents \cup {Nil}], at: 0..Files]

TypeOK ==
  /\ ledger \in [1..Files -> Contents \cup {Nil}]
  /\ history \in Seq((1..Files) \X Contents)
  /\ lock \in Runs \cup {Nil}
  /\ run \in [Runs -> {Idle} \cup Running]

Nothing == [n \in 1..Files |-> Nil]

Init ==
  /\ ledger = Nothing
  /\ history = <<>>
  /\ lock = Nil
  /\ run = [r \in Runs |-> Idle]

At(r, pc) == run[r].pc = pc

Start(r) ==
  /\ run[r] = Idle
  /\ \E files \in Releases :
       run' = [run EXCEPT ![r] =
         [pc |-> "lock", files |-> files, known |-> Nothing, at |-> 0]]
  /\ UNCHANGED <<ledger, history, lock>>

\* pg_advisory_lock waits for the session that has the lock.
LockFreeAlways == TRUE
LockFree == lock = Nil

Lock(r) ==
  /\ At(r, "lock")
  /\ LockFree
  /\ lock' = r
  /\ run' = [run EXCEPT ![r].pc = "read"]
  /\ UNCHANGED <<ledger, history>>

Read(r) ==
  /\ At(r, "read")
  /\ run' = [run EXCEPT ![r].pc = "next", ![r].known = ledger]
  /\ UNCHANGED <<ledger, history, lock>>

\* The end of a run, by its last file or by an error: finally unlocks.
End(r) ==
  /\ run' = [run EXCEPT ![r] = Idle]
  /\ lock' = IF lock = r THEN Nil ELSE lock

Left(q) == {n \in DOMAIN q.files : n > q.at}

\* The ledger has another checksum for the file.
Changed(q, n) == q.known[n] \notin {Nil, q.files[n]}

\* The run q at file n: applied already, or to be executed.
Passed(q, n) ==
  [q EXCEPT !.at = n, !.pc = IF q.known[n] = Nil THEN "execute" ELSE "next"]

\* The loop: no file left, or one that was changed, applied, or is new.
NextFile(r) ==
  LET q == run[r]
  IN /\ At(r, "next")
     /\ \/ Left(q) = {} /\ End(r)
        \/ \E n \in Left(q) :
             /\ \A m \in Left(q) : n <= m
             /\ \/ Changed(q, n) /\ End(r)
                \/ /\ ~Changed(q, n)
                   /\ run' = [run EXCEPT ![r] = Passed(q, n)]
                   /\ UNCHANGED lock
     /\ UNCHANGED <<ledger, history>>

\* BEGIN, the script, and the insert of a version that must be new.
Execute(r) ==
  /\ At(r, "execute")
  /\ ledger[run[r].at] = Nil
  /\ run' = [run EXCEPT ![r].pc = "commit"]
  /\ UNCHANGED <<ledger, history, lock>>

\* What is recorded for the file that was executed.
Checksum(q) == q.files[q.at]

CommitFile(r) ==
  LET q == run[r]
  IN /\ At(r, "commit")
     /\ ledger' = [ledger EXCEPT ![q.at] = Checksum(q)]
     /\ history' = Append(history, <<q.at, q.files[q.at]>>)
     /\ run' = [run EXCEPT ![r].pc = "next"]
     /\ UNCHANGED lock

\* A statement fails, or the process or its session dies: rolled back.
Fail(r) ==
  /\ run[r] # Idle
  /\ End(r)
  /\ UNCHANGED <<ledger, history>>

Proceed(r) == Read(r) \/ NextFile(r) \/ Execute(r) \/ CommitFile(r)

Next == \E r \in Runs : Start(r) \/ Lock(r) \/ Proceed(r) \/ Fail(r)

Spec == Init /\ [][Next]_vars

\* A run goes on; sessions get an advisory lock in the order they asked.
Fairness == \A r \in Runs : WF_vars(Proceed(r)) /\ SF_vars(Lock(r))

-----------------------------------------------------------------------------
(* Properties *)

(***************************************************************************)
(* Every file is executed once, and the ledger says with what content: no  *)
(* run works on a ledger that another one has changed since it was read.   *)
(* ADR-0006: the runner "refuses to continue if an applied file's checksum *)
(* changes", so a file is executed on top of all the earlier files of its  *)
(* own release, every one of them applied with the content it has there.   *)
(***************************************************************************)
LedgerIsHistory ==
  /\ \A i, j \in DOMAIN history : history[i][1] = history[j][1] => i = j
  /\ \A n \in 1..Files, c \in Contents :
       ledger[n] = c <=> \E i \in DOMAIN history : history[i] = <<n, c>>
  /\ \A r \in Runs :
       run[r].pc \in {"execute", "commit"} =>
         /\ ledger[run[r].at] = Nil
         /\ \A n \in DOMAIN run[r].files : n < run[r].at => ledger[n] = run[r].files[n]

(***************************************************************************)
(* Every run of the command ends, however many wait for the lock and       *)
(* however the others end.                                                 *)
(***************************************************************************)
EveryRunEnds == \A r \in Runs : At(r, "lock") ~> run[r] = Idle

(***************************************************************************)
(* ADR-0006: "Migration history must be deterministic" and the runner      *)
(* "applies files in lexical order": the executed files are in that order. *)
(***************************************************************************)
HistoryIsLexical ==
  \A i, j \in DOMAIN history : i < j => history[i][1] < history[j][1]

=============================================================================
