------------------------------ MODULE ChatRoom ------------------------------
(***************************************************************************)
(* What the fleet's chat promises its users, whatever happens to bridges   *)
(* and servers: a listener hears each posted message at most once, never   *)
(* its own, the messages of one sender in the order they were posted, and  *)
(* under a name that says where the sender is: the bare nick at home,      *)
(* nick@node elsewhere.  A message may be lost; it is never repeated,      *)
(* reordered or misattributed.                                             *)
(***************************************************************************)
EXTENDS Naturals, Sequences

CONSTANTS
  Clients,     \* the connected users
  NameOf(_, _) \* NameOf(c, d): the name under which d hears c

VARIABLES
  posted,      \* how many messages each client has posted
  heard        \* what each client heard, in order

Init ==
  /\ posted = [c \in Clients |-> 0]
  /\ heard = [c \in Clients |-> <<>>]

Post(c) ==
  /\ posted' = [posted EXCEPT ![c] = @ + 1]
  /\ UNCHANGED heard

\* The number of the last message d heard from c, zero when there was none.
LastHeard(d, c) ==
  LET ns == {heard[d][i].n : i \in {j \in DOMAIN heard[d] : heard[d][j].from = c}}
  IN  IF ns = {} THEN 0 ELSE CHOOSE n \in ns : \A m \in ns : m <= n

Hear(d, c) ==
  /\ c # d
  /\ \E n \in (LastHeard(d, c) + 1)..posted[c] :
       heard' = [heard EXCEPT ![d] =
                   Append(@, [from |-> c, n |-> n, nick |-> NameOf(c, d)])]
  /\ UNCHANGED posted

Next == \E c \in Clients : Post(c) \/ \E d \in Clients : Hear(d, c)

Spec == Init /\ [][Next]_<<posted, heard>>
============================================================================
