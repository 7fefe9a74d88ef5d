------------------------------ MODULE LogExport ------------------------------
(***************************************************************************)
(* get_logs (main.rs): the last lines of the rotated log files, while the  *)
(* app goes on logging.  A line is its number; a file has a name and its   *)
(* lines, and the files are kept oldest first.  Rotation, the log plugin's *)
(* (external), renames the current file and removes the oldest.            *)
(*                                                                         *)
(* Operators named X_Y and commented (fault) are not part of the model.    *)
(***************************************************************************)
EXTENDS Naturals, Sequences, SequencesExt

CONSTANTS
  Current,    \* the name of the file being written
  PerFile,    \* max_file_size, in lines
  KeepSome,   \* the rotated files kept
  Budgets,    \* the max_lines asked for
  MaxLine     \* bound: lines written

ASSUME LogAssumption ==
  /\ Current = 0 /\ PerFile \in Nat \ {0} /\ KeepSome \in Nat
  /\ Budgets \subseteq Nat /\ MaxLine \in Nat

VARIABLES
  files,     \* oldest first: records name, lines
  written,   \* lines written so far
  turned,    \* rotations so far: the names given
  job,       \* "idle", "named", "sorted", "over"
  budget,    \* max_lines
  plan,      \* the names still to read, newest first
  kept,      \* the lines kept so far, oldest first
  error,     \* the export failed
  moved      \* the files were rotated during the export (history)

fileVars == <<files, written, turned>>
jobVars  == <<job, budget, plan, kept, error>>
logVars  == <<fileVars, jobVars, moved>>

Name == 0..MaxLine
LogTypeOK ==
  /\ files \in Seq([name : Name, lines : Seq(1..MaxLine)])
  /\ written \in 0..MaxLine /\ turned \in Name
  /\ job \in {"idle", "named", "sorted", "over"}
  /\ budget \in Budgets \cup {0}
  /\ plan \in Seq(Name) /\ kept \in Seq(1..MaxLine)
  /\ error \in BOOLEAN /\ moved \in BOOLEAN

LogInit ==
  /\ files = <<[name |-> Current, lines |-> <<>>]>> /\ written = 0 /\ turned = 0
  /\ job = "idle" /\ budget = 0 /\ plan = <<>> /\ kept = <<>> /\ error = FALSE
  /\ moved = FALSE

Names == {files[i].name : i \in DOMAIN files}
PlaceOf(n) == CHOOSE i \in DOMAIN files : files[i].name = n
LinesOf(n) == files[PlaceOf(n)].lines

-----------------------------------------------------------------------------
(* The log *)

WriteLine ==
  /\ written < MaxLine /\ Len(LinesOf(Current)) < PerFile
  /\ written' = written + 1
  /\ files' = [files EXCEPT ![Len(files)].lines = Append(@, written + 1)]
  /\ UNCHANGED <<turned, jobVars, moved>>

Rotate ==
  /\ Len(LinesOf(Current)) = PerFile
  /\ turned' = turned + 1
  /\ LET named == [files EXCEPT ![Len(files)].name = turned + 1]
         all   == Append(named, [name |-> Current, lines |-> <<>>])
     IN files' = SubSeq(all, IF Len(all) > KeepSome + 1 THEN Len(all) - KeepSome ELSE 1,
                        Len(all))
  /\ moved' = (moved \/ job # "idle")
  /\ UNCHANGED <<written, jobVars>>

-----------------------------------------------------------------------------
(* collect_recent_log_lines *)

\* read_dir
ReadDir ==
  /\ job = "idle" /\ job' = "named"
  /\ budget' \in Budgets
  /\ plan' = SetToSeq(Names) /\ kept' = <<>> /\ error' = FALSE /\ moved' = FALSE
  /\ UNCHANGED fileVars

Listed == {plan[i] : i \in DOMAIN plan}

NewestFirst(s) == \A i, j \in DOMAIN s : i < j => PlaceOf(s[i]) > PlaceOf(s[j])

\* By modification time: renaming keeps it, so this is the order of writing.
SortFiles ==
  /\ job = "named" /\ Listed \subseteq Names /\ job' = "sorted"
  /\ plan' \in [1..Len(plan) -> Listed] /\ NewestFirst(plan')
  /\ UNCHANGED <<fileVars, budget, kept, error, moved>>

Reading == job = "sorted" /\ plan # <<>> /\ Len(kept) < budget

\* (fault) the head of a file
ReadFile_Head ==
  /\ Reading /\ Head(plan) \in Names
  /\ LET lines == LinesOf(Head(plan))
         room  == budget - Len(kept)
     IN kept' = SubSeq(lines, 1, IF Len(lines) > room THEN room ELSE Len(lines)) \o kept
  /\ plan' = Tail(plan)
  /\ UNCHANGED <<fileVars, job, budget, error, moved>>

\* The tail of a file, up to what is left of the budget
ReadFile ==
  /\ Reading /\ Head(plan) \in Names
  /\ LET lines == LinesOf(Head(plan))
         room  == budget - Len(kept)
         over  == IF Len(lines) > room THEN Len(lines) - room ELSE 0
     IN kept' = SubSeq(lines, over + 1, Len(lines)) \o kept
  /\ plan' = Tail(plan)
  /\ UNCHANGED <<fileVars, job, budget, error, moved>>

\* A file that is gone, or that is not text, fails the whole export.
FileFails ==
  /\ job \in {"named", "sorted"} /\ (job = "sorted" => Reading)
  /\ job' = "over" /\ error' = TRUE /\ plan' = <<>> /\ kept' = <<>>
  /\ UNCHANGED <<fileVars, budget, moved>>

FinishExport ==
  /\ job = "sorted" /\ ~Reading
  /\ job' = "over" /\ plan' = <<>>
  /\ UNCHANGED <<fileVars, budget, kept, error, moved>>

ReturnLogs ==
  /\ job = "over" /\ job' = "idle"
  /\ budget' = 0 /\ kept' = <<>> /\ error' = FALSE /\ moved' = FALSE
  /\ UNCHANGED <<fileVars, plan>>

LogStep == WriteLine \/ Rotate \/ ReadDir \/ SortFiles \/ ReadFile \/ FileFails
           \/ FinishExport \/ ReturnLogs

-----------------------------------------------------------------------------
(* Properties *)

Ascending(s) == \A i, j \in DOMAIN s : i < j => s[i] < s[j]
Held == LET n(i) == Len(files[i].lines)
            sum[i \in 0..Len(files)] == IF i = 0 THEN 0 ELSE sum[i - 1] + n(i)
        IN sum[Len(files)]

\* Rotation or not, what is exported is in the order it was written, no line is
\* there twice, and the budget is kept; and without a rotation in the middle there
\* is no gap, less than the budget only when the files hold less, and nothing only
\* when there is no rotated file (main.rs:673-677).
ExportIsTheTail ==
  /\ Ascending(kept) /\ Len(kept) <= budget
  /\ job = "over" /\ ~error /\ ~moved =>
       /\ kept # <<>> => kept[Len(kept)] - kept[1] + 1 = Len(kept)
       /\ Len(kept) < budget =>
            IF kept = <<>> THEN Len(files) = 1 ELSE kept[1] = written - Held + 1
==============================================================================
