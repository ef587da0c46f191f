---------------------------- MODULE SecureStream ----------------------------
(***************************************************************************)
(* What a secured connection promises the two ends: in each direction, the *)
(* messages offered are taken in order, each once, none invented; once     *)
(* the near end has closed it offers and takes nothing more.               *)
(***************************************************************************)
EXTENDS Naturals, Sequences

VARIABLES offered, taken, open
stream == <<offered, taken, open>>
Directions == {"up", "down"}

StreamInit == /\ offered = [d \in Directions |-> 0]
              /\ taken = [d \in Directions |-> << >>]
              /\ open = TRUE

Offer(d) == /\ d = "up" => open
            /\ offered' = [offered EXCEPT ![d] = @ + 1]
            /\ UNCHANGED <<taken, open>>

Take(d) == /\ d = "down" => open
           /\ Len(taken[d]) < offered[d]
           /\ taken' = [taken EXCEPT ![d] = Append(@, Len(@) + 1)]
           /\ UNCHANGED <<offered, open>>

CloseStream == open /\ open' = FALSE /\ UNCHANGED <<offered, taken>>

StreamNext == CloseStream \/ \E d \in Directions : Offer(d) \/ Take(d)
StreamSpec == StreamInit /\ [][StreamNext]_stream
=============================================================================
