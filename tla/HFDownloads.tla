----------------------------- MODULE HFDownloads -----------------------------
(***************************************************************************)
(* The end of expert-fetch --from-hf: the trunk (--pinned) and the n-gram   *)
(* tables (--ngram) of src/expert_network/hf_source.py, downloaded whole,   *)
(* and run again after a kill.  A file is absent, torn or whole.            *)
(***************************************************************************)
EXTENDS Naturals, FiniteSets

CONSTANTS
  Tables,        \* the n-gram tensors of the checkpoint
  TableWorkers,  \* how many are downloaded at a time
  MaxDownloads   \* how often the program gets this far

ASSUME TablesAssumption == IsFiniteSet(Tables) /\ TableWorkers \in Nat \ {0}

VARIABLES
  dpc,       \* idle, collect (the trunk's tensors), save (the trunk), tables, done
  pinned,    \* pinned.safetensors
  table,     \* per tensor, the file under bin/ngram
  part,      \* per tensor, its .part file
  toFetch,   \* tensors of this run still to start
  active,    \* tensors being downloaded
  failed,    \* a table of this run could not be read
  downloads

downloadVars == <<dpc, pinned, table, part, toFetch, active, failed, downloads>>

DownloadsInit ==
  /\ dpc = "idle" /\ pinned = "absent"
  /\ table = [t \in Tables |-> "absent"] /\ part = [t \in Tables |-> "absent"]
  /\ toFetch = {} /\ active = {} /\ failed = FALSE
  /\ downloads = 0

\* The tables whose file has not its full size.
Wanted == {t \in Tables : table[t] # "whole"}

BeginTables == dpc' = "tables" /\ toFetch' = Wanted

\* download_pinned takes a file that exists for present, whatever is in it, and
\* else collects all tensors in memory.
BeginTrunk ==
  /\ dpc \in {"idle", "done"}
  /\ downloads < MaxDownloads /\ downloads' = downloads + 1
  /\ IF pinned = "absent" THEN dpc' = "collect" /\ UNCHANGED toFetch ELSE BeginTables
  /\ failed' = FALSE
  /\ UNCHANGED <<pinned, table, part, active>>

\* It saves them under the final name.
OpenTrunk ==
  /\ dpc = "collect"
  /\ dpc' = "save" /\ pinned' = "torn"
  /\ UNCHANGED <<table, part, toFetch, active, failed, downloads>>

SaveTrunk ==
  /\ dpc = "save"
  /\ pinned' = "whole" /\ BeginTables
  /\ UNCHANGED <<table, part, active, failed, downloads>>

\* Mutant: a table is downloaded in place.
BeginTableInPlace(t) ==
  /\ dpc = "tables" /\ t \in toFetch /\ Cardinality(active) < TableWorkers
  /\ toFetch' = toFetch \ {t} /\ active' = active \cup {t}
  /\ part' = [part EXCEPT ![t] = "torn"] /\ table' = [table EXCEPT ![t] = "torn"]
  /\ UNCHANGED <<dpc, pinned, failed, downloads>>

\* download_ngram writes a table chunk by chunk beside its name ...
BeginTable(t) ==
  /\ dpc = "tables" /\ t \in toFetch /\ Cardinality(active) < TableWorkers
  /\ toFetch' = toFetch \ {t} /\ active' = active \cup {t}
  /\ part' = [part EXCEPT ![t] = "torn"]
  /\ UNCHANGED <<dpc, pinned, table, failed, downloads>>

WriteTable(t) ==
  /\ t \in active /\ part[t] = "torn"
  /\ part' = [part EXCEPT ![t] = "whole"]
  /\ UNCHANGED <<dpc, pinned, table, toFetch, active, failed, downloads>>

\* ... and gives it the name when it is complete.
ReplaceTable(t) ==
  /\ t \in active /\ part[t] = "whole"
  /\ table' = [table EXCEPT ![t] = "whole"] /\ part' = [part EXCEPT ![t] = "absent"]
  /\ active' = active \ {t}
  /\ UNCHANGED <<dpc, pinned, toFetch, failed, downloads>>

\* A range cannot be read.
TableFails(t) ==
  /\ t \in active /\ part[t] = "torn"
  /\ active' = active \ {t} /\ failed' = TRUE
  /\ UNCHANGED <<dpc, pinned, table, part, toFetch, downloads>>

\* Results are taken in order: when the failed one's turn comes, after other tables
\* were begun or not, those still queued are cancelled and those begun awaited.
CancelTables ==
  /\ dpc = "tables" /\ failed /\ toFetch # {}
  /\ toFetch' = {}
  /\ UNCHANGED <<dpc, pinned, table, part, active, failed, downloads>>

TablesDone ==
  /\ dpc = "tables" /\ toFetch = {} /\ active = {}
  /\ dpc' = IF failed THEN "idle" ELSE "done"
  /\ UNCHANGED <<pinned, table, part, toFetch, active, failed, downloads>>

\* Killed, or ended by an error while it collected the trunk.
DownloadsEnd ==
  /\ dpc \notin {"idle", "done"}
  /\ dpc' = "idle" /\ toFetch' = {} /\ active' = {} /\ failed' = FALSE
  /\ UNCHANGED <<pinned, table, part, downloads>>

DownloadsNext ==
  \/ BeginTrunk \/ OpenTrunk \/ SaveTrunk \/ CancelTables \/ TablesDone \/ DownloadsEnd
  \/ \E t \in Tables : BeginTable(t) \/ WriteTable(t) \/ ReplaceTable(t) \/ TableFails(t)

-----------------------------------------------------------------------------
\* Whatever downloads run together, fail or are killed, a file at a table's name
\* has all its rows, and a run that reports success leaves every table.
TablesWhole ==
  /\ \A t \in Tables : table[t] # "torn"
  /\ dpc = "done" => \A t \in Tables : table[t] = "whole"
=============================================================================
