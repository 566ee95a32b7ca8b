----------------------------- MODULE AtomicUpload -----------------------------
(***************************************************************************)
(* What a chunked upload promises its clients: chunks are appended to a    *)
(* stored object, and an object becomes the original of a dataset in one   *)
(* step, once, with exactly the chunks it holds at that moment; after that *)
(* it never changes.  There are no requests, retries or limits here.       *)
(***************************************************************************)
EXTENDS Naturals, Sequences

CONSTANTS Objects, Content

VARIABLES
  stored,      \* the chunks of each object
  originals    \* the published originals, in order

Init ==
  /\ stored = [o \in Objects |-> <<>>]
  /\ originals = <<>>

Published(o) == \E i \in 1..Len(originals) : originals[i].object = o

Extend(o) ==
  /\ ~Published(o)
  /\ \E c \in Content : stored' = [stored EXCEPT ![o] = Append(@, c)]
  /\ UNCHANGED originals

Discard(o) ==
  /\ ~Published(o)
  /\ stored' = [stored EXCEPT ![o] = <<>>]
  /\ UNCHANGED originals

Publish(o) ==
  /\ ~Published(o)
  /\ originals' = Append(originals, [object |-> o, hash |-> stored[o]])
  /\ UNCHANGED stored

Next == \E o \in Objects : Extend(o) \/ Discard(o) \/ Publish(o)

vars == <<stored, originals>>

Spec == Init /\ [][Next]_vars
===============================================================================
