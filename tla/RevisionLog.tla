----------------------------- MODULE RevisionLog -----------------------------
(***************************************************************************)
(* What Store relies on when it uses BlockDeque as values_by_revision: an  *)
(* append-only log of revisions.  Every append is given the next index, a  *)
(* cell becomes readable once its value has been stored, and a truncation  *)
(* forgets a prefix of the log and nothing else.  Locks, blocks and the    *)
(* two counters of the implementation are invisible here.                  *)
(***************************************************************************)
EXTENDS Naturals

VARIABLES
  first,      \* the first index that has not been truncated
  next,       \* the index the next append is given
  readable    \* the indices whose value a reader is given

logVars == <<first, next, readable>>

LogInit ==
  /\ first = 0
  /\ next = 0
  /\ readable = {}

Append1 ==
  /\ next' = next + 1
  /\ UNCHANGED <<first, readable>>

Store1(i) ==
  /\ i \in first .. next - 1
  /\ readable' = readable \union {i}
  /\ UNCHANGED <<first, next>>

Truncate(i) ==
  /\ i \in first .. next
  /\ first' = i
  /\ readable' = {j \in readable : j >= i}
  /\ UNCHANGED next

LogNext ==
  \/ Append1
  \/ \E i \in first .. next - 1 : Store1(i)
  \/ \E i \in first .. next : Truncate(i)

LogSpec == LogInit /\ [][LogNext]_logVars
==============================================================================
