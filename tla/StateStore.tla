----------------------------- MODULE StateStore -----------------------------
(***************************************************************************)
(* Writes to state.db, internal/state: withWrite of db.go with the           *)
(* statements of messages.go and sessions.go.  A process has a mutex around  *)
(* its writes; SQLite (external) has one write lock for all processes, which *)
(* a deferred transaction takes with its first statement.  A write is made   *)
(* once by the writer of its name; the rows of one session are in table, and *)
(* a row is its writer and its place in the batch.                           *)
(***************************************************************************)
EXTENDS Integers, Sequences, FiniteSets, SequencesExt

CONSTANTS
  Writers,
  ProcessOf,   \* the process of each writer
  OpOf,        \* "create", "bump" or "append"
  RowsOf,      \* statements of each: the rows of an append
  Attempts,    \* of withWrite (20)
  Nobody

Processes == {ProcessOf[w] : w \in Writers}

ASSUME StoreAssumption ==
  /\ OpOf \in [Writers -> {"create", "bump", "append"}]
  /\ RowsOf \in [Writers -> Nat \ {0}] /\ Attempts \in Nat \ {0}
  /\ Nobody \notin Writers

VARIABLES
  mutex,      \* DB.mu of each process: the writer that holds it
  writeLock,  \* SQLite's: the writer whose transaction holds it
  place,      \* where each writer is
  attempt,
  stmts,      \* statements its transaction has carried out
  reply,      \* what withWrite has returned
  table,      \* the committed rows, by id
  present,    \* the session has its row
  calls,      \* api_call_count
  committed   \* history: the writers whose transactions were committed

lockVars  == <<mutex, writeLock>>
txVars    == <<place, attempt, stmts>>
dataVars  == <<table, present, calls>>
storeVars == <<lockVars, txVars, reply, dataVars, committed>>

StoreTypeOK ==
  /\ mutex \in [Processes -> Writers \cup {Nobody}]
  /\ writeLock \in Writers \cup {Nobody}
  /\ place \in [Writers -> {"idle", "begin", "open", "done"}]
  /\ attempt \in [Writers -> 0 .. Attempts]
  /\ \A w \in Writers : stmts[w] \in 0 .. RowsOf[w]
  /\ reply \in [Writers -> {"none", "nil", "error"}]
  /\ table \in Seq(Writers \X Nat)
  /\ present \in BOOLEAN /\ calls \in Nat
  /\ committed \in Seq(Writers)

StoreInit ==
  /\ mutex = [p \in Processes |-> Nobody]
  /\ writeLock = Nobody
  /\ place = [w \in Writers |-> "idle"]
  /\ attempt = [w \in Writers |-> 0]
  /\ stmts = [w \in Writers |-> 0]
  /\ reply = [w \in Writers |-> "none"]
  /\ table = <<>> /\ present = FALSE /\ calls = 0
  /\ committed = <<>>

-----------------------------------------------------------------------------
(* withWrite returns, and its locks and variables go. *)
Return(w, answer) ==
  /\ place' = [place EXCEPT ![w] = "done"]
  /\ reply' = [reply EXCEPT ![w] = answer]
  /\ mutex' = [mutex EXCEPT ![ProcessOf[w]] = Nobody]
  /\ writeLock' = IF writeLock = w THEN Nobody ELSE writeLock
  /\ attempt' = [attempt EXCEPT ![w] = 0]
  /\ stmts' = [stmts EXCEPT ![w] = 0]

StartWrite(w) ==
  /\ place[w] = "idle"
  /\ mutex[ProcessOf[w]] = Nobody
  /\ mutex' = [mutex EXCEPT ![ProcessOf[w]] = w]
  /\ place' = [place EXCEPT ![w] = "begin"]
  /\ UNCHANGED <<writeLock, attempt, stmts, reply, dataVars, committed>>

Begin(w) ==
  /\ place[w] = "begin"
  /\ place' = [place EXCEPT ![w] = "open"]
  /\ UNCHANGED <<lockVars, attempt, stmts, reply, dataVars, committed>>

(* After an error of its own withWrite starts over, or returns with the last *)
(* error when it has tried often enough.                                     *)
TryAgain(w) ==
  IF attempt[w] + 1 < Attempts
  THEN /\ attempt' = [attempt EXCEPT ![w] = @ + 1]
       /\ place' = [place EXCEPT ![w] = "begin"]
       /\ stmts' = [stmts EXCEPT ![w] = 0]
       /\ writeLock' = IF writeLock = w THEN Nobody ELSE writeLock
       /\ UNCHANGED <<mutex, reply>>
  ELSE Return(w, "error")

BeginFails(w) ==
  /\ place[w] = "begin"
  /\ TryAgain(w)
  /\ UNCHANGED <<dataVars, committed>>

(* One statement of the callback. *)
WrittenAtOnce_Autocommit(w) ==
  table' = IF OpOf[w] = "append" THEN Append(table, <<w, stmts[w] + 1>>) ELSE table
WrittenAtOnce(w) == UNCHANGED table

Execute(w) ==
  /\ place[w] = "open"
  /\ stmts[w] < RowsOf[w]
  /\ writeLock \in {Nobody, w}
  /\ writeLock' = w
  /\ stmts' = [stmts EXCEPT ![w] = @ + 1]
  /\ WrittenAtOnce(w)
  /\ UNCHANGED <<mutex, place, attempt, reply, present, calls, committed>>

(* A statement that fails, as it has waited for the lock too long among      *)
(* others, is the end of the write.                                          *)
ExecuteFails(w) ==
  /\ place[w] = "open"
  /\ stmts[w] < RowsOf[w]
  /\ Return(w, "error")
  /\ UNCHANGED <<dataVars, committed>>

(* AppendMessagesBatch; CreateSession, which leaves a row that is there as   *)
(* it is; BumpAPICalls, which does nothing when there is none.               *)
Batch(w) == [i \in 1 .. RowsOf[w] |-> <<w, i>>]

Apply(w) ==
  /\ table' = IF OpOf[w] = "append" THEN table \o Batch(w) ELSE table
  /\ present' = (present \/ OpOf[w] = "create")
  /\ calls' = IF OpOf[w] = "bump" /\ present THEN calls + 1 ELSE calls
  /\ committed' = Append(committed, w)

Commit(w) ==
  /\ place[w] = "open"
  /\ stmts[w] = RowsOf[w]
  /\ Apply(w)
  /\ Return(w, "nil")

(* A commit that fails has written nothing. *)
AfterFailedCommit_Written(w) == Apply(w)
AfterFailedCommit(w) == UNCHANGED <<dataVars, committed>>

CommitFails(w) ==
  /\ place[w] = "open"
  /\ stmts[w] = RowsOf[w]
  /\ AfterFailedCommit(w)
  /\ TryAgain(w)

(* The process of a writer ends: its locks go, and so does its transaction.  *)
StoreCrash(p) ==
  LET survives(w) == ProcessOf[w] # p IN
  /\ mutex' = [mutex EXCEPT ![p] = Nobody]
  /\ writeLock' = IF writeLock # Nobody /\ ~survives(writeLock) THEN Nobody ELSE writeLock
  /\ place' = [w \in Writers |-> IF survives(w) THEN place[w] ELSE "done"]
  /\ attempt' = [w \in Writers |-> IF survives(w) THEN attempt[w] ELSE 0]
  /\ stmts' = [w \in Writers |-> IF survives(w) THEN stmts[w] ELSE 0]
  /\ UNCHANGED <<reply, dataVars, committed>>

Transact(w) ==
  \/ Begin(w) \/ BeginFails(w)
  \/ Execute(w) \/ ExecuteFails(w)
  \/ Commit(w) \/ CommitFails(w)

-----------------------------------------------------------------------------
(* The row with number i is one of a whole batch in its order. *)
WholeAt(i) ==
  LET w == table[i][1]
      first == i - table[i][2] + 1
  IN /\ OpOf[w] = "append" /\ Contains(committed, w)
     /\ first \in DOMAIN table /\ first + RowsOf[w] - 1 \in DOMAIN table
     /\ \A k \in 1 .. RowsOf[w] : table[first + k - 1] = <<w, k>>

HasRow(w) == \E i \in DOMAIN table : table[i][1] = w

Bumps == {a \in DOMAIN committed : OpOf[committed[a]] = "bump"}

(* However processes, retries, failing statements and crashes interleave,    *)
(* the table is made of the batches that were committed, whole, each of them *)
(* once and in the order of the commits, and every call that is counted is   *)
(* counted once.                                                             *)
BatchesAreWhole ==
  /\ \A i \in DOMAIN table : WholeAt(i)
  /\ IsInjective(table) /\ IsInjective(committed)
  /\ \A a \in DOMAIN committed :
       OpOf[committed[a]] = "append" => HasRow(committed[a])
  /\ \A i, j \in DOMAIN table : \A a, b \in DOMAIN committed :
       i < j /\ committed[a] = table[i][1] /\ committed[b] = table[j][1] => a <= b
  /\ calls <= Cardinality(Bumps)

(* The answer of withWrite tells whether the write is in the database. *)
ReplyTellsTruth ==
  \A w \in Writers :
    /\ reply[w] = "nil" => Contains(committed, w)
    /\ reply[w] = "error" => ~Contains(committed, w)
=============================================================================
