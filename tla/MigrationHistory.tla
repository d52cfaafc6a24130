-------------------------- MODULE MigrationHistory --------------------------
(* What the migration runner promises of the recorded history, whoever runs  *)
(* it, fails or dies: it is a stack of groups of migrations, which are taken *)
(* in the catalog's order and only ever added and removed at the top.        *)
EXTENDS Naturals, Sequences

CONSTANT Last      \* the number of migrations in the catalog
VARIABLE history   \* history[m]: the group that migration m is recorded in

Top == IF history = <<>> THEN 0 ELSE history[Len(history)]

Init == history = <<>>

\* The next migration joins the top group or starts one above it.
Record ==
  /\ Len(history) < Last
  /\ \E g \in {Top, Top + 1} \ {0} : history' = Append(history, g)

\* Only the last recorded migration can be undone.
Undo ==
  /\ history # <<>>
  /\ history' = SubSeq(history, 1, Len(history) - 1)

Spec == Init /\ [][Record \/ Undo]_history
=============================================================================
