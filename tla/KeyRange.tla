------------------------------- MODULE KeyRange --------------------------------
(***************************************************************************)
(* mem_etcd/src/store.rs: which of the store's ordered maps holds a key    *)
(* (prefix_split), and which part of which map a range of keys is          *)
(* (prefix_and_range_of_key).                                              *)
(*                                                                         *)
(* A key is a sequence of bytes.  What the code tells apart is kept: the   *)
(* slash, the dot, the digit that follows the slash in the byte order, and *)
(* the root "/registry/", whose word is a single byte here.                *)
(***************************************************************************)
EXTENDS Integers, Sequences, FiniteSets

CONSTANT Names   \* the keys that the properties at the end range over

Dot      == 46
Slash    == 47
Zero     == 48
Registry == 114

Root == <<Slash, Registry, Slash>>

StartsWith(key, s) == Len(key) >= Len(s) /\ SubSeq(key, 1, Len(s)) = s

Slashes(key) == {i \in 1 .. Len(key) : key[i] = Slash}

(* segments[2].contains('.'): the segment after the root names an API group *)
HasGroup(key) ==
  \E i \in Len(Root) + 1 .. Len(key) :
    key[i] = Dot /\ \A j \in Len(Root) + 1 .. i : key[j] # Slash

Lesser(a, b) == IF a <= b THEN a ELSE b

(* last_segment: how many slashes belong to the prefix *)
Depth(key) == Lesser(Cardinality(Slashes(key)), IF HasGroup(key) THEN 4 ELSE 3)

(* prefix_split *)
PrefixOf(key) ==
  IF ~StartsWith(key, Root) THEN <<>>
  ELSE LET end == CHOOSE i \in Slashes(key) :
                    Cardinality({j \in Slashes(key) : j <= i}) = Depth(key)
       IN  SubSeq(key, 1, end)

SuffixOf(key) == SubSeq(key, Len(PrefixOf(key)) + 1, Len(key))

(* The order of byte strings. *)
Less(a, b) ==
  \E i \in 1 .. Len(b) :
    /\ i <= Len(a) + 1
    /\ SubSeq(a, 1, i - 1) = SubSeq(b, 1, i - 1)
    /\ i = Len(a) + 1 \/ a[i] < b[i]

(* The end is the start's prefix with its closing slash replaced by "0". *)
EndsPrefix(start, end) ==
  LET last == SuffixOf(end)
  IN  /\ last # <<>>
      /\ last[Len(last)] = Zero
      /\ PrefixOf(start) = PrefixOf(end) \o SubSeq(last, 1, Len(last) - 1) \o <<Slash>>

(***************************************************************************)
(* prefix_and_range_of_key: one key if there is no end; otherwise start    *)
(* and end must have one prefix, or the end must close the start's prefix. *)
(***************************************************************************)
Accepted(start, end) ==
  \/ end = <<>>
  \/ PrefixOf(start) = PrefixOf(end)
  \/ EndsPrefix(start, end)

(* BTreeMap::range panics on bounds the wrong way round. *)
Inverted(start, end) ==
  /\ end # <<>>
  /\ PrefixOf(start) = PrefixOf(end)
  /\ Less(SuffixOf(end), SuffixOf(start))

(* The range visits key. *)
Visited(start, end, key) ==
  /\ PrefixOf(key) = PrefixOf(start)
  /\ IF end = <<>> THEN SuffixOf(key) = SuffixOf(start)
     ELSE /\ ~Less(SuffixOf(key), SuffixOf(start))
          /\ PrefixOf(start) = PrefixOf(end) => Less(SuffixOf(key), SuffixOf(end))

-------------------------------------------------------------------------------
InRange(start, end, key) ==
  IF end = <<>> THEN key = start ELSE ~Less(key, start) /\ Less(key, end)

(***************************************************************************)
(* An accepted range visits, of the keys in start's map, exactly those     *)
(* from start to end: the bounds on suffixes, with the open end that       *)
(* stands for a closed prefix, mean the same as the order of whole keys.   *)
(***************************************************************************)
BoundsSelectRange ==
  \A start \in Names, end \in Names \union {<<>>} :
    Accepted(start, end) /\ ~Inverted(start, end) =>
      \A key \in Names :
        PrefixOf(key) = PrefixOf(start) => (Visited(start, end, key) <=> InRange(start, end, key))

(* A directory of objects: a resource, or a namespace of one. *)
IsDirectory(key) ==
  /\ StartsWith(key, Root)
  /\ key[Len(key)] = Slash
  /\ Cardinality(Slashes(key)) >= IF HasGroup(key) THEN 4 ELSE 3

(***************************************************************************)
(* What prefix_split's comment relies on, "Kube will never do a range      *)
(* across multiple prefixes": a list of a directory, from its name to its  *)
(* name with the closing slash replaced by "0", is accepted and visits     *)
(* every key below the directory and no other.                             *)
(***************************************************************************)
ListsAreComplete ==
  \A dir \in {n \in Names : IsDirectory(n)} :
    LET end == [dir EXCEPT ![Len(dir)] = Zero]
    IN  /\ Accepted(dir, end) /\ ~Inverted(dir, end)
        /\ \A key \in Names : Visited(dir, end, key) <=> StartsWith(key, dir)

===============================================================================
