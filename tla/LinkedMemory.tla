---------------------------- MODULE LinkedMemory ----------------------------
(***************************************************************************)
(* What load-reserved and store-conditional promise the harts: a hart may  *)
(* hold a link to one address, a store by any other hart to that address   *)
(* breaks the link, and a store-conditional only ever succeeds on an       *)
(* unbroken link.  A link may also be lost at any time, and the host,      *)
(* which is not a hart, stores without breaking links.                     *)
(***************************************************************************)
CONSTANTS
  Harts,
  Addrs,     \* physical addresses of memory
  Values,
  NoAddr     \* (reg_t)-1: no reservation

VARIABLES
  mem,       \* the contents of the memory
  link,      \* per hart: the address it is linked to, or NoAddr
  out        \* the last operation of a hart and what it reported

LMInit ==
  /\ mem \in [Addrs -> Values]
  /\ link = [h \in Harts |-> NoAddr]
  /\ out = <<>>

\* The links left when hart h has stored to a.
Broken(h, a) ==
  [g \in Harts |-> IF g # h /\ link[g] = a THEN NoAddr ELSE link[g]]

LoadLinked(h, a) ==
  /\ link' = [link EXCEPT ![h] = a]
  /\ out' = <<h, "lr">>
  /\ UNCHANGED mem

StoreTo(h, a, v) ==
  /\ mem' = [mem EXCEPT ![a] = v]
  /\ link' = Broken(h, a)
  /\ out' = <<h, "store">>

StoreSucceeds(h, a, v) ==
  /\ link[h] = a
  /\ mem' = [mem EXCEPT ![a] = v]
  /\ link' = [Broken(h, a) EXCEPT ![h] = NoAddr]
  /\ out' = <<h, "success">>

StoreFails(h) ==
  /\ link' = [link EXCEPT ![h] = NoAddr]
  /\ out' = <<h, "failure">>
  /\ UNCHANGED mem

LoseLink(h) ==
  /\ link' = [link EXCEPT ![h] = NoAddr]
  /\ UNCHANGED <<mem, out>>

HostStores(a, v) ==
  /\ mem' = [mem EXCEPT ![a] = v]
  /\ UNCHANGED <<link, out>>

LMNext ==
  \/ \E h \in Harts, a \in Addrs : LoadLinked(h, a)
  \/ \E h \in Harts, a \in Addrs, v \in Values : StoreTo(h, a, v)
  \/ \E h \in Harts, a \in Addrs, v \in Values : StoreSucceeds(h, a, v)
  \/ \E h \in Harts : StoreFails(h)
  \/ \E h \in Harts : LoseLink(h)
  \/ \E a \in Addrs, v \in Values : HostStores(a, v)

LMSpec == LMInit /\ [][LMNext]_<<mem, link, out>>
=============================================================================
