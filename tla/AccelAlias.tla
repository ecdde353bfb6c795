----------------------------- MODULE AccelAlias -----------------------------
(***************************************************************************)
(* What the hash table of the opcode cache promises to its users           *)
(* (opcache/zend_accelerator_hash.h): a map in which "few keys may be      *)
(* resolved to the same data".  Keys share cells; a store into one of them *)
(* is seen through all of them.  Every operation is atomic.                *)
(***************************************************************************)
EXTENDS Naturals

CONSTANTS Key, Data,
  Cell,     \* the cells, positive numbers
  NoData    \* what a cell that is not in use holds

VARIABLES cell,   \* the cell of a key, 0 when the key is absent
          value   \* what the cells hold
vars == <<cell, value>>

Init == cell = [k \in Key |-> 0] /\ value = [c \in Cell |-> NoData]

(* What a look-up of k returns. *)
Find(k) == IF cell[k] = 0 THEN NoData ELSE value[cell[k]]

(* A new key with a cell of its own. *)
Insert(k, c, d) ==
  /\ cell[k] = 0 /\ value[c] = NoData
  /\ cell' = [cell EXCEPT ![k] = c]
  /\ value' = [value EXCEPT ![c] = d]

(* A store through a key that is present. *)
Store(k, d) ==
  /\ cell[k] # 0
  /\ value' = [value EXCEPT ![cell[k]] = d]
  /\ UNCHANGED cell

(* Key k becomes another name of key l. *)
Alias(k, l) ==
  /\ cell[l] # 0
  /\ cell' = [cell EXCEPT ![k] = cell[l]]
  /\ UNCHANGED value

(* Everything is dropped. *)
Clean == Init'

Next ==
  \/ \E k \in Key, d \in Data : Store(k, d) \/ \E c \in Cell : Insert(k, c, d)
  \/ \E k, l \in Key : Alias(k, l)
  \/ Clean

Spec == Init /\ [][Next]_vars
=============================================================================
