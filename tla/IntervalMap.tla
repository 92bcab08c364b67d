---------------------------- MODULE IntervalMap ----------------------------
(***************************************************************************)
(* What internal/imap.Imap promises to its clients: a partial map from     *)
(* addresses to values, in which Insert gives every address of a half-open *)
(* interval [lo, hi) one value and leaves every other address alone.       *)
(* Intervals, nodes, splitting and merging are the implementation's        *)
(* affair (module Imap).                                                   *)
(***************************************************************************)
EXTENDS Naturals

CONSTANTS
  MaxAddr,   \* the greatest address, 2^64-1 in the code
  Value,     \* the values a client may insert
  NoValue    \* "no interval contains this address" (the code's nil)

Addr == 0..MaxAddr

VARIABLES
  map,   \* the value of each address
  call   \* the arguments of the Insert under way, NoCall between calls

NoCall == [low |-> 0, high |-> 0, val |-> NoValue]

Init ==
  /\ map = [a \in Addr |-> NoValue]
  /\ call = NoCall

Insert(low, high, val) ==
  /\ call = NoCall
  /\ low < high
  /\ map' = [a \in Addr |-> IF low <= a /\ a < high THEN val ELSE map[a]]
  /\ call' = [low |-> low, high |-> high, val |-> val]

Return ==
  /\ call # NoCall
  /\ call' = NoCall
  /\ UNCHANGED map

Next == Return \/ \E low, high \in Addr, val \in Value : Insert(low, high, val)

Spec == Init /\ [][Next]_<<map, call>>
=============================================================================
