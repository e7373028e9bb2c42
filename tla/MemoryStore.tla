---------------------------- MODULE MemoryStore -----------------------------
(***************************************************************************)
(* Save of internal/memory/store.go on the file MEMORY.md, which all         *)
(* processes of a home directory share and which only a mutex of each        *)
(* process guards.  A note is named by the call that saves it; a line is its *)
(* note, or Cut: a part of one.  Save reads the file, writes a temporary     *)
(* file and renames that.  The copy MEMORY.md.bak, which nothing reads, is    *)
(* left out.                                                                 *)
(***************************************************************************)
EXTENDS Integers, Sequences, FiniteSets, SequencesExt

CONSTANTS
  Savers,
  HomeOf,     \* the process of each of them
  Threats,    \* notes that scan refuses
  Lines,      \* lines that fit into the file (8800 bytes)
  Misread,    \* those of them that may fail to read the file
  Cut, Free

Homes == {HomeOf[s] : s \in Savers}

ASSUME MemoryAssumption ==
  /\ Threats \subseteq Savers /\ Misread \subseteq Savers
  /\ Lines \in Nat \ {0}
  /\ Free \notin Savers /\ Cut \notin Savers

VARIABLES
  file,        \* the lines of MEMORY.md
  blank,       \* it has white space and nothing else
  guard,       \* Store.mu of each process
  read,        \* what each Save has read
  missed,      \* history: the lines that it should have read, too
  step,        \* where it is
  saved,       \* history: notes whose Save has said so
  overwritten, \* history: lines lost to a Save of another process
  dropped,     \* history: lines that were too old for the file
  unread       \* history: lines lost to a Save that could not read them

lost == <<overwritten, dropped, unread>>
memVars == <<file, blank, guard, read, missed, step, saved, lost>>

MemInit ==
  /\ file = <<>>
  /\ blank \in BOOLEAN
  /\ guard = [h \in Homes |-> Free]
  /\ read = [s \in Savers |-> <<>>] /\ missed = [s \in Savers |-> {}]
  /\ step = [s \in Savers |-> "idle"]
  /\ saved = {} /\ overwritten = {} /\ dropped = {} /\ unread = {}

-----------------------------------------------------------------------------
StepTo(s, there) == step' = [step EXCEPT ![s] = there]

(* The deferred Unlock. *)
Leave(s) ==
  /\ guard' = [guard EXCEPT ![HomeOf[s]] = Free]
  /\ read' = [read EXCEPT ![s] = <<>>] /\ missed' = [missed EXCEPT ![s] = {}]
  /\ StepTo(s, "over")

(* Save returns before it takes the lock. *)
Refuse(s) ==
  /\ step[s] = "idle"
  /\ s \in Threats
  /\ StepTo(s, "over")
  /\ UNCHANGED <<file, blank, guard, read, missed, saved, lost>>

MayEnter_Always(s) == TRUE
MayEnter(s) == guard[HomeOf[s]] = Free

Enter(s, lines) ==
  /\ step[s] = "idle"
  /\ s \notin Threats
  /\ MayEnter(s)
  /\ guard' = [guard EXCEPT ![HomeOf[s]] = s]
  /\ read' = [read EXCEPT ![s] = lines]
  /\ missed' = [missed EXCEPT ![s] = (ToSet(file) \ ToSet(lines)) \ {Cut}]
  /\ StepTo(s, "read")
  /\ UNCHANGED <<file, blank, saved, lost>>

ReadFile(s) == ~blank /\ Enter(s, file)

(* An error reading the file is ignored: Save goes on with what came before  *)
(* it, the first lines and maybe a part of the next, or nothing.             *)
ReadFails(s) ==
  /\ s \in Misread
  /\ \/ blank /\ Enter(s, <<>>)
     \/ \E n \in 1 .. Len(file), part \in {<<>>, <<Cut>>} :
          Enter(s, SubSeq(file, 1, n - 1) \o part)

(* drifted asks for the first field of the file before it asks whether there *)
(* is one.  The panic gives the lock back.                                   *)
Panic(s) ==
  /\ step[s] = "idle"
  /\ s \notin Threats
  /\ MayEnter(s)
  /\ blank
  /\ StepTo(s, "over")
  /\ UNCHANGED <<file, blank, guard, read, missed, saved, lost>>

(* The temporary file. *)
FileMeanwhile_Truncated == <<>>
FileMeanwhile == file

WriteTemp(s) ==
  /\ step[s] = "read"
  /\ file' = FileMeanwhile
  /\ StepTo(s, "written")
  /\ UNCHANGED <<blank, guard, read, missed, saved, lost>>

(* The file is cut at its size, between two lines or within one. *)
Newest(lines) ==
  IF Len(lines) <= Lines THEN {lines}
  ELSE LET kept == SubSeq(lines, Len(lines) - Lines + 1, Len(lines))
       IN  {kept, <<Cut>> \o kept}

(* The lines that a Save of another process has added since it was read are  *)
(* gone, and so are those that could not be read.                            *)
Rename(s) ==
  LET all    == Append(read[s], s)
      others == {n \in ToSet(file) \ {Cut} : HomeOf[n] # HomeOf[s]}
  IN
  /\ step[s] = "written"
  /\ file' \in Newest(all) /\ blank' = FALSE
  /\ saved' = saved \cup {s}
  /\ overwritten' = overwritten \cup (others \ (ToSet(read[s]) \cup missed[s]))
  /\ dropped' = dropped \cup (ToSet(all) \ (ToSet(file') \cup {Cut}))
  /\ unread' = unread \cup (ToSet(file) \cap missed[s])
  /\ Leave(s)

SaveFails(s) ==
  /\ step[s] \in {"read", "written"}
  /\ Leave(s)
  /\ UNCHANGED <<file, blank, saved, lost>>

(* The process ends; a temporary file may stay. *)
MemCrash(h) ==
  /\ guard' = [guard EXCEPT ![h] = Free]
  /\ step' = [s \in Savers |-> IF HomeOf[s] = h THEN "over" ELSE step[s]]
  /\ read' = [s \in Savers |-> IF HomeOf[s] = h THEN <<>> ELSE read[s]]
  /\ missed' = [s \in Savers |-> IF HomeOf[s] = h THEN {} ELSE missed[s]]
  /\ UNCHANGED <<file, blank, saved, lost>>

-----------------------------------------------------------------------------
(* A note whose Save said so is in the file, whatever crashes or fails,      *)
(* until it is the oldest of too many, or the file is written by a process   *)
(* that had read it before, or by a Save, of whatever process, that could    *)
(* not read the line and went on: never because of a Save of the same        *)
(* process that did read the file.                                           *)
SavedIsKept == saved \subseteq ToSet(file) \cup overwritten \cup dropped \cup unread
=============================================================================
