------------------------------ MODULE EntryTree ------------------------------
(***************************************************************************)
(* debug/dwarf.Reader, of the Go library: the debugging entries of a file  *)
(* in the order they are stored in.  An entry that has children is         *)
(* followed by them and by an entry of tag "end" (a zero tag).             *)
(***************************************************************************)
EXTENDS Integers, Sequences, FiniteSetsExt

Tags == {"unit", "subprogram", "inlined", "block", "other", "end"}

\* How many entries are open after each of a sequence of entries.
Level(entries) ==
  LET level[i \in 0..Len(entries)] ==
        IF i = 0 THEN 0
        ELSE level[i - 1] + (IF entries[i].children THEN 1
                             ELSE IF entries[i].tag = "end" THEN -1 ELSE 0)
  IN level

\* SkipChildren after entry e was read: the place of the entry after e and all
\* that it encloses.
AfterChildren(entries, e) ==
  LET level == Level(entries)
  IN IF entries[e].children
     THEN Min({i \in e + 1..Len(entries) : level[i] < level[e]}) + 1
     ELSE e + 1

\* That place, for each entry.
After(entries) == [e \in DOMAIN entries |-> AfterChildren(entries, e)]

\* Is entry e inside entry outer?  Its end is.
Encloses(after, outer, e) == outer < e /\ e < after[outer]

\* Are the entries of a file closed in the order they are opened, and is `after'
\* the place after each of them and all that it encloses?
Nested(entries, after) ==
  /\ after \in [DOMAIN entries -> 2..Len(entries) + 1]
  /\ \A e \in DOMAIN entries :
       /\ IF entries[e].children
          THEN after[e] > e + 1 /\ entries[e].tag # "end" /\ entries[after[e] - 1].tag = "end"
          ELSE after[e] = e + 1
       /\ entries[e].tag = "end" => \E o \in 1..e - 1 : after[o] - 1 = e
       /\ \A i \in e + 1..after[e] - 2 : after[i] < after[e]
=============================================================================
