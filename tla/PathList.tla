------------------------------ MODULE PathList ------------------------------
(***************************************************************************)
(* The path lists of the index anchor (file_paths_list, object_paths_list) *)
(* as sequences of tagged entries.  An entry's tag is the path; its value  *)
(* is the position insert_tagged_value recorded when it created the entry. *)
(* A leaf of a value tree keeps only positions, counted from zero.         *)
(***************************************************************************)
EXTENDS Integers, Sequences

Entry(tag, pos) == [tag |-> tag, pos |-> pos]

Tags(list) == {list[i].tag : i \in DOMAIN list}

\* list_get_tagged_value: the first entry that carries the tag.
FirstWith(list, tag) ==
  CHOOSE i \in DOMAIN list :
    /\ list[i].tag = tag
    /\ \A j \in 1 .. i - 1 : list[j].tag # tag

\* Variant: a new entry is said to be where the last one is.
TaggedPos_TooNear(list, tag) ==
  IF tag \in Tags(list) THEN list[FirstWith(list, tag)].pos ELSE Len(list) - 1

\* What insert_tagged_value returns: the recorded position, or the new one.
TaggedPos(list, tag) ==
  IF tag \in Tags(list) THEN list[FirstWith(list, tag)].pos ELSE Len(list)

\* Variant: a new entry always goes to the front.
insert_entry_Front(list, e, pos) == <<e>> \o list

\* insert_entry at a position that is not past the end: zero is the front.
insert_entry(list, e, pos) ==
  [j \in 1 .. Len(list) + 1 |->
     IF j <= pos THEN list[j] ELSE IF j = pos + 1 THEN e ELSE list[j - 1]]

\* The list insert_tagged_value leaves behind.
WithTag(list, tag) ==
  IF tag \in Tags(list) THEN list
  ELSE insert_entry(list, Entry(tag, Len(list)), Len(list))

\* list_pick_tagged_value(list, pos)->tag, by position and not by value.
TagAt(list, pos) == list[pos + 1].tag
=============================================================================
